---- MODULE Spec2Model ----
(***************************************************************************)
(* R2DJ: the voice slicer (VoiceSlicer) and the live ambient slicer        *)
(* (LiveAmbientSlicer, current and older variant).                         *)
(*                                                                         *)
(* Units.  Samples and amplitudes that enter as data are integers in       *)
(* thousandths (300 is the sample 0.3).  A quantity the code computes by a *)
(* division (a duration i / sampleRate, a mean amplitude sum / n, a pitch  *)
(* sampleRate / lag) is kept as the exact fraction <<numerator,            *)
(* denominator>>, denominator > 0, and compared by cross multiplication.   *)
(* Where the code's result depends on floating-point rounding (a Float32   *)
(* sample, the length test on doubles, the autocorrelation sums of doubles)*)
(* the rounding is computed.                                               *)
(* Time of the live system is counted in units of 100 ms.                  *)
(***************************************************************************)
EXTENDS Integers, Sequences, FiniteSets, TLC

\* the harness of the pure functions (classifier, segmenter, pitch estimator)
VARIABLES pc, catIn, catOut, frame, slices, pitchOut

pureVars == <<pc, catIn, catOut, frame, slices, pitchOut>>

\* LiveAmbientSlicer: which of the two variants in LiveAmbientSlicer.tsx runs, the
\* clock, React state (isInitialized, isLive, audioSlices), refs (micRef as
\* micCreated / micOpen, isListeningRef, playersRef, loopsRef), the Tone objects
\* (transport, players not yet disposed, loop objects), the pending callbacks
\* (chunk chains, expiry timers, the aging interval), the runs of
\* initializeAudio and startLiveAnalysis that are suspended at an await, and
\* whether a UserMedia that micRef no longer holds is open
VARIABLES variant, now, isInitialized, isLive, isListening, micCreated, micOpen,
          transport, audioSlices, playersRef, players, loopsRef, loopObjs,
          chains, timers, ageDue, pending, strayOpen

\* the controls (React state: feedbackIntensity, ambientVolume, chaos, reverb,
\* delay, in hundredths) and the parameters of the effect chain in effectsRef
VARIABLES controls, effects

controlVars == <<controls, effects>>

\* bookkeeping of the exploration: the environment of this run (how many chunks
\* and user actions it offers, which chunks the microphone delivers), counters,
\* the ids handed out, the ids inserted since the store was last cleared, the
\* number of aging ticks so far, the last event with its outcome, and whether
\* the most recent start failed to open the microphone
VARIABLES env, chunks, userActs, nextId, inserted, ageTicks, lastEvent, startFailed

liveVars == <<variant, now, isInitialized, isLive, isListening, micCreated, micOpen,
              transport, audioSlices, playersRef, players, loopsRef, loopObjs,
              chains, timers, ageDue, pending, strayOpen, controls,
              effects,
              env, chunks, userActs, nextId, inserted, ageTicks, lastEvent,
              startFailed>>

\* VoiceSlicer: React state (isRecording, audioSlices, selectedSlices as the
\* list of its ids in insertion order, keyboardMap as a set of <<key, id>>,
\* isPlaying), refs (playersRef, loopRef), the microphone, the transport, the
\* suspended runs of startRecording and stopRecording, the number of user
\* actions so far, the sound of the last recording and the last event with its
\* outcome
VARIABLE voice

vars == <<pureVars, liveVars, voice>>

----------------------------------------------------------------------------
(* Numbers *)

Abs(x) == IF x < 0 THEN -x ELSE x

\* the element of a one-element set; in The({f(v) : v \in {e}}) the value of e is
\* computed once
The(S) == CHOOSE out \in S : TRUE

Frac(n, d) == <<n, d>>

\* A number computed from Float32 samples: the value n / d the decimal samples
\* would give, and the sum e of the samples' rounding errors (in units of
\* 1 / (1000 * 2^33), see F32Err).  It differs from n / d by less than 1e-7 of
\* its value and lies above n / d when e > 0, below when e < 0.
Approx(n, d, e) == <<n, d, e>>

\* the rounding error carried by a number; an exact fraction carries none
Err(a) == IF Len(a) > 2 THEN a[3] ELSE 0

\* a < b on numbers of which at most one carries a rounding error: the values
\* n / d decide, and between equal values the error does
Lt(a, b) ==
    \/ a[1] * b[2] < b[1] * a[2]
    \/ a[1] * b[2] = b[1] * a[2] /\ Err(a) < Err(b)

\* a > b on fractions
Gt(a, b) == Lt(b, a)

\* a >= b on fractions
Geq(a, b) == ~Lt(a, b)

\* Math.min(a, b)
Min(a, b) == IF a < b THEN a ELSE b

\* Math.floor(a / b) for a >= 0, b > 0
Floor(a, b) == a \div b

RECURSIVE Pow2(_)
Pow2(k) == IF k <= 0 THEN 1 ELSE 2 * Pow2(k - 1)

\* 2^k mod m
RECURSIVE PowMod2(_, _)
PowMod2(k, m) == IF k <= 0 THEN 1 % m ELSE (2 * PowMod2(k - 1, m)) % m

\* the least j >= from with s * 2^j >= r (s >= 1)
RECURSIVE ShiftUp(_, _, _)
ShiftUp(s, r, from) == IF s * Pow2(from) >= r THEN from ELSE ShiftUp(s, r, from + 1)

\* the greatest e >= from with r * 2^e <= s (s >= r)
RECURSIVE ShiftDown(_, _, _)
ShiftDown(s, r, from) == IF s < r * Pow2(from + 1) THEN from ELSE ShiftDown(s, r, from + 1)

\* Round to nearest, ties to even, of s * 2^k / r to an integer, given as the
\* difference rounded * r - s * 2^k (between -r/2 and r/2).  Only residues
\* modulo 2r are computed, so k may be large.
RoundingResidue(s, r, k) ==
    LET R == (s * PowMod2(k, 2 * r)) % (2 * r)
        rem == R % r
    IN  IF rem = 0 THEN 0
        ELSE IF 2 * rem < r THEN -rem
        ELSE IF 2 * rem > r THEN r - rem
        ELSE IF R < r THEN -rem ELSE r - rem

\* A sample of s thousandths (0 <= s <= 1000) is held in the Float32Array as the
\* nearest number with a 24-bit mantissa.  F32Err(s) is that number minus
\* s / 1000 in units of 1 / (1000 * 2^33): 0.01 is held as 0.00999999978, 0.1 as
\* 0.10000000149, 0.3 as 0.30000001192.
F32Rounding(s) ==
    IF s = 0 THEN 0
    ELSE LET k == 23 + ShiftUp(s, 1000, 0)
         IN  RoundingResidue(s, 1000, k) * Pow2(33 - k)

\* the errors of all sample values, computed once
F32Table == [s \in 0 .. 1000 |-> F32Rounding(s)]

F32Err(s) == F32Table[s]

\* the exponent e of the double s / r: 2^e <= s / r < 2^(e + 1)  (s >= 1)
ExponentOf(s, r) == IF s >= r THEN ShiftDown(s, r, 0) ELSE -ShiftUp(s, r, 1)

\* i / sampleRate - sliceStart / sampleRate > 2.0 in double arithmetic when
\* i - sliceStart = 2 * sampleRate: each quotient is rounded to 53 bits, and the
\* difference of the two doubles, rounded again, exceeds 2.0 exactly when the
\* two rounding errors differ by more than 2^-52
DoubleDifferenceAboveTwo(i, sliceStart, sampleRate) ==
    IF sliceStart = 0 THEN FALSE
    ELSE LET ka == 52 - ExponentOf(sliceStart, sampleRate)
             kb == 52 - ExponentOf(i, sampleRate)
             na == RoundingResidue(sliceStart, sampleRate, ka)
             nb == RoundingResidue(i, sampleRate, kb)
             lhs == nb * Pow2(ka - kb) - na
         IN  IF ka >= 52 THEN lhs > sampleRate * Pow2(ka - 52)
             ELSE lhs * Pow2(52 - ka) > sampleRate

\* The Float32 nearest to s / 1000 (1 <= s <= 1000) is m * 2^-k with a 24-bit
\* mantissa m and k = F32Scale(s); 0.1 is 13421773 * 2^-27
F32Scale(s) == 23 + ShiftUp(s, 1000, 0)

F32Mantissa(s) ==
    LET k == F32Scale(s)
        t == s * Pow2(k - 23)
        q == (t * 2048) \div 1000
        r == (t * 2048) % 1000
    IN  q * 4096 + (r * 4096 + RoundingResidue(s, 1000, k)) \div 1000

\* the Float32 sample of s thousandths (1 <= s <= 1000) in units of 2^-33, as
\* three digits to the base 2^11, least digit first
F32DigitsOfMagnitude(s) ==
    LET sh == 33 - F32Scale(s)
        m == F32Mantissa(s)
        lo == (m % Pow2(27 - sh)) * Pow2(sh)
        hi == m \div Pow2(27 - sh)
    IN  <<lo % 2048, (lo \div 2048) % 2048, lo \div 4194304 + 32 * hi>>

\* the digits of a negative sample are negative
F32DigitsOf(s) ==
    IF s = 0 THEN <<0, 0, 0>>
    ELSE IF s > 0 THEN F32DigitsOfMagnitude(s)
    ELSE [i \in 1 .. 3 |-> -F32DigitsOfMagnitude(-s)[i]]

\* the digits of all sample values, computed once
F32Digits == [s \in -1000 .. 1000 |-> F32DigitsOf(s)]

\* A double that is a sum of products of Float32 samples is a multiple of 2^-66.
\* It is held as <<a2, a1, a0>>, standing for (a2 * 2^54 + a1 * 2^27 + a0) * 2^-66
\* with 0 <= a1, a0 < 2^27; a2 carries the sign.  Sums below 2^18 in size are
\* held exactly (a slice of up to 262,143 samples of size at most 1).
DoubleLimb == Pow2(27)

DoubleZero == <<0, 0, 0>>

\* a > b on two such doubles
DoubleGt(a, b) ==
    \/ a[1] > b[1]
    \/ a[1] = b[1] /\ a[2] > b[2]
    \/ a[1] = b[1] /\ a[2] = b[2] /\ a[3] > b[3]

\* the exact sum a + b; the limbs of b need not lie in 0 .. 2^27 - 1
ExactSum(a, b) ==
    LET s0 == a[3] + b[3]
        s1 == a[2] + b[2] + s0 \div DoubleLimb
    IN  <<a[1] + b[1] + s1 \div DoubleLimb, s1 % DoubleLimb, s0 % DoubleLimb>>

\* the exact negative
Negated(a) == ExactSum(DoubleZero, <<-a[1], -a[2], -a[3]>>)

\* the number of bits of n >= 0
RECURSIVE BitLength(_)
BitLength(n) == IF n = 0 THEN 0 ELSE 1 + BitLength(n \div 2)

\* for a >= 0 the number d of low bits dropped when a is rounded to a 53-bit
\* mantissa: a has 54 + BitLength(a[1]) bits when a[1] > 0
RoundingBits(a) ==
    IF a[1] > 0 THEN 1 + BitLength(a[1])
    ELSE IF 2 * a[2] >= DoubleLimb THEN 1 ELSE 0

\* a >= 0 rounded to a multiple of 2^d, to nearest, ties to the even multiple.
\* Up to d = 27 the dropped bits are bits of a0; above, they are all of a0 and
\* the low d - 27 bits of a1
RoundedTo(a, d) ==
    IF d <= 27
    THEN LET q == Pow2(d)
             r == a[3] % q
             odd == IF d = 27 THEN a[2] % 2 = 1 ELSE (a[3] \div q) % 2 = 1
         IN  IF r = 0 THEN a
             ELSE IF 2 * r > q \/ (2 * r = q /\ odd)
             THEN ExactSum(a, <<0, 0, q - r>>)
             ELSE <<a[1], a[2], a[3] - r>>
    ELSE LET q == Pow2(d - 27)
             r == a[2] % q
             odd == (a[2] \div q) % 2 = 1
             above == 2 * r > q \/ (2 * r = q /\ a[3] > 0)
             tie == 2 * r = q /\ a[3] = 0
         IN  IF r = 0 /\ a[3] = 0 THEN a
             ELSE IF above \/ (tie /\ odd)
             THEN ExactSum(<<a[1], a[2] - r, 0>>, <<0, q, 0>>)
             ELSE <<a[1], a[2] - r, 0>>

\* a >= 0 rounded to a 53-bit mantissa
RoundedMagnitude(a) == The({RoundedTo(a, d) : d \in {RoundingBits(a)}})

\* the exact number a rounded to a double
RoundDouble(a) ==
    IF a[1] < 0
    THEN The({Negated(r) : r \in {RoundedMagnitude(n) : n \in {Negated(a)}}})
    ELSE RoundedMagnitude(a)

\* the product of two samples from their digits a and b, in units of 2^-66: the
\* digit products c0 .. c4 of weight 2^0, 2^11, 2^22, 2^33, 2^44 are spread over
\* the three limbs
DigitsProduct(a, b) ==
    LET c0 == a[1] * b[1]
        c1 == a[1] * b[2] + a[2] * b[1]
        c2 == a[1] * b[3] + a[2] * b[2] + a[3] * b[1]
        c3 == a[2] * b[3] + a[3] * b[2]
        c4 == a[3] * b[3]
    IN  <<c3 \div 2097152 + c4 \div 1024,
          c1 \div 65536 + c2 \div 32 + (c3 % 2097152) * 64 + (c4 % 1024) * 131072,
          c0 + (c1 % 65536) * 2048 + (c2 % 32) * 4194304>>

\* x * y on samples given in thousandths: the product of two Float32 numbers
\* has at most 48 bits and is exact as a double
SampleProduct(x, y) ==
    The({DigitsProduct(a, b) : a \in {F32Digits[x]}, b \in {F32Digits[y]}})

\* The loop callbacks compute their thresholds on doubles.  A natural number of
\* up to 110 bits is held as ten digits to the base 2^11, least digit first.
BigBase == 2048

BigLen == 10

BigDigitAt(a, i) == IF i >= 1 /\ i <= Len(a) THEN a[i] ELSE 0

\* the digits of c from digit i on, with the carries propagated
RECURSIVE Carried(_, _, _)
Carried(c, i, carry) ==
    IF i > BigLen THEN <<>>
    ELSE The({<<s % BigBase>> \o Carried(c, i + 1, s \div BigBase) :
              s \in {BigDigitAt(c, i) + carry}})

\* a * b for a and b of up to five digits
BigTimes(a, b) ==
    Carried(<<a[1] * b[1],
              a[1] * b[2] + a[2] * b[1],
              a[1] * b[3] + a[2] * b[2] + a[3] * b[1],
              a[1] * b[4] + a[2] * b[3] + a[3] * b[2] + a[4] * b[1],
              a[1] * b[5] + a[2] * b[4] + a[3] * b[3] + a[4] * b[2] + a[5] * b[1],
              a[2] * b[5] + a[3] * b[4] + a[4] * b[3] + a[5] * b[2],
              a[3] * b[5] + a[4] * b[4] + a[5] * b[3],
              a[4] * b[5] + a[5] * b[4],
              a[5] * b[5]>>, 1, 0)

BigPlus(a, b) ==
    Carried([k \in 1 .. BigLen |-> BigDigitAt(a, k) + BigDigitAt(b, k)], 1, 0)

\* a * 2^d
BigShifted(a, d) ==
    The({Carried([k \in 1 .. BigLen |-> BigDigitAt(a, k - q) * f], 1, 0) :
         q \in {d \div 11}, f \in {Pow2(d % 11)}})

\* a \div 2^d
BigFloorShifted(a, d) ==
    The({[k \in 1 .. BigLen |->
              BigDigitAt(a, k + q) \div f + (BigDigitAt(a, k + q + 1) % f) * (BigBase \div f)] :
         q \in {d \div 11}, f \in {Pow2(d % 11)}})

\* the number of bits of a
BigBitLength(a) ==
    LET used == {i \in 1 .. Len(a) : a[i] # 0}
        top == CHOOSE i \in used : \A j \in used : j <= i
    IN  IF used = {} THEN 0 ELSE 11 * (top - 1) + BitLength(a[top])

\* bit k of a (bit 0 is the lowest)
BigBit(a, k) == (BigDigitAt(a, (k \div 11) + 1) \div Pow2(k % 11)) % 2

\* the bits of a below bit k are all zero
BigLowZero(a, k) ==
    /\ \A i \in 1 .. (k \div 11) : BigDigitAt(a, i) = 0
    /\ BigDigitAt(a, (k \div 11) + 1) % Pow2(k % 11) = 0

\* a / 2^d (d >= 1) rounded to the nearest integer, ties to the even one
BigRounded(a, d) ==
    The({IF BigBit(a, d - 1) = 1 /\ (~BigLowZero(a, d - 1) \/ down[1] % 2 = 1)
         THEN BigPlus(down, <<1>>)
         ELSE down :
         down \in {BigFloorShifted(a, d)}})

BigLess(a, b) ==
    \E i \in 1 .. BigLen :
        /\ BigDigitAt(a, i) < BigDigitAt(b, i)
        /\ \A j \in (i + 1) .. BigLen : BigDigitAt(a, j) = BigDigitAt(b, j)

\* a \div d and a % d for a divisor d below 2^20, from digit i down with the
\* remainder rem of the higher digits: <<the digits 1 .. i of the quotient,
\* the remainder>>
RECURSIVE BigDividedFrom(_, _, _, _)
BigDividedFrom(a, d, i, rem) ==
    IF i = 0 THEN <<<<>>, rem>>
    ELSE The({The({<<Append(rest[1], cur \div d), rest[2]>> :
                   rest \in {BigDividedFrom(a, d, i - 1, cur % d)}}) :
              cur \in {rem * BigBase + BigDigitAt(a, i)}})

\* A double x >= 0 is [m, e], standing for m * 2^e with a mantissa m of exactly
\* 53 bits (five digits); zero has m = 0.
F64Zero == [m |-> <<0, 0, 0, 0, 0>>, e |-> 0]

IsF64Zero(x) == \A i \in 1 .. 5 : x.m[i] = 0

\* the exact number m * 2^e rounded to a double (round to nearest, ties to even)
\* for m of n > 53 bits
F64OfLong(m, e, n) ==
    The({IF BigBitLength(r) = 54
         THEN [m |-> SubSeq(BigFloorShifted(r, 1), 1, 5), e |-> e + n - 52]
         ELSE [m |-> SubSeq(r, 1, 5), e |-> e + n - 53] :
         r \in {BigRounded(m, n - 53)}})

F64Of(m, e) ==
    The({IF n = 0 THEN F64Zero
         ELSE IF n <= 53
         THEN [m |-> SubSeq(BigShifted(m, 53 - n), 1, 5), e |-> e - (53 - n)]
         ELSE F64OfLong(m, e, n) :
         n \in {BigBitLength(m)}})

\* the double a decimal literal n / d denotes (0 <= n < 2^10, n < 2 * d, d < 2^10):
\* n * 2^k / d with k chosen for a 53-bit quotient, rounded on the remainder
F64OfDecimal(n, d) ==
    IF n = 0 THEN F64Zero
    ELSE The({The({The({F64Of(m, -k) :
                        m \in {IF 2 * qr[2] > d \/ (2 * qr[2] = d /\ qr[1][1] % 2 = 1)
                               THEN BigPlus(qr[1], <<1>>)
                               ELSE qr[1]}}) :
                   qr \in {BigDividedFrom(BigShifted(<<n>>, k), d, BigLen, 0)}}) :
              k \in {52 + ShiftUp(n, d, 0)}})

\* x * y on doubles
F64Times(x, y) == The({F64Of(m, x.e + y.e) : m \in {BigTimes(x.m, y.m)}})

\* x + y on doubles; an addend more than 54 binary places below the other one
\* is less than a quarter of its last place
F64Plus(x, y) ==
    LET e == Min(x.e, y.e)
    IN  IF IsF64Zero(x) THEN y
        ELSE IF IsF64Zero(y) THEN x
        ELSE IF x.e - e > 54 THEN x
        ELSE IF y.e - e > 54 THEN y
        ELSE The({F64Of(m, e) :
                  m \in {BigPlus(BigShifted(x.m, x.e - e), BigShifted(y.m, y.e - e))}})

\* x < y on doubles
F64Less(x, y) ==
    IF IsF64Zero(y) THEN FALSE
    ELSE IF IsF64Zero(x) THEN TRUE
    ELSE x.e < y.e \/ (x.e = y.e /\ BigLess(x.m, y.m))

\* the doubles of the decimal literals lo / 1000 .. hi / 1000 in a row, computed
\* once per row (the range is halved to keep the evaluation shallow)
RECURSIVE F64Row(_, _)
F64Row(lo, hi) ==
    IF lo = hi THEN <<F64OfDecimal(lo, 1000)>>
    ELSE F64Row(lo, (lo + hi) \div 2) \o F64Row((lo + hi) \div 2 + 1, hi)

F64Decimals == F64Row(0, 1000)

\* the double of the decimal literal n / 1000
F64Thousandths(n) == F64Decimals[n + 1]

----------------------------------------------------------------------------
(* Slice Classifier *)

Categories == {"percussive", "tonal", "voice", "noise"}

\* the rules of VoiceSlicer.categorizeSlice with the tonal test tried first
categorizeSliceTonalFirst(amplitude, pitch, duration) ==
    IF Gt(pitch, Frac(80, 1)) /\ Lt(pitch, Frac(800, 1)) /\ Gt(duration, Frac(2, 10))
    THEN "tonal"
    ELSE IF Lt(duration, Frac(3, 10)) /\ Gt(amplitude, Frac(1, 10)) /\ Lt(pitch, Frac(200, 1))
    THEN "percussive"
    ELSE IF Gt(pitch, Frac(100, 1)) /\ Lt(pitch, Frac(500, 1)) /\ Gt(duration, Frac(1, 10))
    THEN "voice"
    ELSE "noise"

\* VoiceSlicer.categorizeSlice
categorizeSlice(amplitude, pitch, duration) ==
    IF Lt(duration, Frac(3, 10)) /\ Gt(amplitude, Frac(1, 10)) /\ Lt(pitch, Frac(200, 1))
    THEN "percussive"
    ELSE IF Gt(pitch, Frac(80, 1)) /\ Lt(pitch, Frac(800, 1)) /\ Gt(duration, Frac(2, 10))
    THEN "tonal"
    ELSE IF Gt(pitch, Frac(100, 1)) /\ Lt(pitch, Frac(500, 1)) /\ Gt(duration, Frac(1, 10))
    THEN "voice"
    ELSE "noise"

\* the rules of LiveAmbientSlicer.categorizeSlice with the voice test tried
\* before the tonal test
categorizeSliceLiveVoiceFirst(amplitude, pitch, duration) ==
    IF Lt(duration, Frac(3, 10)) /\ Gt(amplitude, Frac(5, 100)) /\ Lt(pitch, Frac(200, 1))
    THEN "percussive"
    ELSE IF Gt(pitch, Frac(100, 1)) /\ Lt(pitch, Frac(500, 1)) /\ Gt(duration, Frac(1, 10))
    THEN "voice"
    ELSE IF Gt(pitch, Frac(80, 1)) /\ Lt(pitch, Frac(800, 1)) /\ Gt(duration, Frac(2, 10))
    THEN "tonal"
    ELSE "noise"

\* LiveAmbientSlicer.categorizeSlice (both variants)
categorizeSliceLive(amplitude, pitch, duration) ==
    IF Lt(duration, Frac(3, 10)) /\ Gt(amplitude, Frac(5, 100)) /\ Lt(pitch, Frac(200, 1))
    THEN "percussive"
    ELSE IF Gt(pitch, Frac(80, 1)) /\ Lt(pitch, Frac(800, 1)) /\ Gt(duration, Frac(2, 10))
    THEN "tonal"
    ELSE IF Gt(pitch, Frac(100, 1)) /\ Lt(pitch, Frac(500, 1)) /\ Gt(duration, Frac(1, 10))
    THEN "voice"
    ELSE "noise"

getCategoryColor(category) ==
    CASE category = "percussive" -> "#ef4444"
      [] category = "tonal" -> "#3b82f6"
      [] category = "voice" -> "#10b981"
      [] category = "noise" -> "#8b5cf6"

----------------------------------------------------------------------------
(* Pitch Estimator *)

\* sum + x * y as the double the addition gives
AddProduct(sum, x, y) ==
    The({RoundDouble(s) : s \in {ExactSum(sum, p) : p \in {SampleProduct(x, y)}}})

\* sum += audioData[i] * audioData[i + lag] for i in lo .. hi-1 (0-based i), in
\* the loop's order; the range is halved to keep the evaluation shallow
RECURSIVE SumProdRange(_, _, _, _, _)
SumProdRange(audioData, lag, sum, lo, hi) ==
    IF lo >= hi THEN sum
    ELSE IF hi = lo + 1
    THEN AddProduct(sum, audioData[lo + 1], audioData[lo + 1 + lag])
    ELSE The({SumProdRange(audioData, lag, left, (lo + hi) \div 2, hi) :
                 left \in {SumProdRange(audioData, lag, sum, lo, (lo + hi) \div 2)}})

SumProd(audioData, lag, k) == SumProdRange(audioData, lag, DoubleZero, 0, k)

\* autocorrelation[lag] after the first loop: filled for lag < bufferSize / 2,
\* left at 0 above
Autocorrelation(audioData, bufferSize, lag) ==
    IF 2 * lag < bufferSize THEN SumProd(audioData, lag, bufferSize - lag) ELSE DoubleZero

\* one pass of the peak search; peak holds maxCorrelation and bestLag
PeakStep(audioData, bufferSize, peak, lag) ==
    The({IF DoubleGt(ac, peak[1]) THEN <<ac, lag>> ELSE peak :
            ac \in {Autocorrelation(audioData, bufferSize, lag)}})

\* the passes lag = lo .. hi-1 of the peak search, in order (the range is halved
\* to keep the evaluation shallow)
RECURSIVE PeakScan(_, _, _, _, _)
PeakScan(audioData, bufferSize, peak, lo, hi) ==
    IF lo >= hi THEN peak
    ELSE IF hi = lo + 1 THEN PeakStep(audioData, bufferSize, peak, lo)
    ELSE The({PeakScan(audioData, bufferSize, left, (lo + hi) \div 2, hi) :
                 left \in {PeakScan(audioData, bufferSize, peak, lo, (lo + hi) \div 2)}})

\* the search runs from minLag while lag < maxLag and lag < autocorrelation.length,
\* starting with maxCorrelation = 0 and bestLag = 0
BestLag(audioData, sampleRate, bufferSize) ==
    PeakScan(audioData, bufferSize, <<DoubleZero, 0>>,
             Floor(sampleRate, 800), Min(Floor(sampleRate, 80), bufferSize))[2]

\* sampleRate / bestLag, or 0 when no lag was found
PitchOf(sampleRate, bestLag) ==
    IF bestLag > 0 THEN Frac(sampleRate, bestLag) ELSE Frac(0, 1)

\* VoiceSlicer.detectPitch: the whole slice is correlated
detectPitch(audioData, sampleRate) ==
    The({PitchOf(sampleRate, bestLag) :
            bestLag \in {BestLag(audioData, sampleRate, Len(audioData))}})

\* LiveAmbientSlicer.detectPitch: at most the first 1024 samples
detectPitchLive(audioData, sampleRate) ==
    The({PitchOf(sampleRate, bestLag) :
            bestLag \in {BestLag(audioData, sampleRate, Min(Len(audioData), 1024))}})

----------------------------------------------------------------------------
(* Segmenter: VoiceSlicer.analyzeAndSliceAudio *)

threshold == Frac(1, 100)

minSliceLength == Frac(1, 10)

maxSliceLength == Frac(2, 1)

\* sliceData.reduce((sum, val) => sum + Math.abs(val), 0) over indices lo .. hi-1
RECURSIVE SumAbsRange(_, _, _)
SumAbsRange(sliceData, lo, hi) ==
    IF lo >= hi THEN 0
    ELSE IF hi = lo + 1 THEN Abs(sliceData[lo + 1])
    ELSE SumAbsRange(sliceData, lo, (lo + hi) \div 2)
         + SumAbsRange(sliceData, (lo + hi) \div 2, hi)

SumAbs(sliceData) == SumAbsRange(sliceData, 0, Len(sliceData))

\* the rounding errors of the Float32 samples lo .. hi-1, summed
RECURSIVE SumErrRange(_, _, _)
SumErrRange(sliceData, lo, hi) ==
    IF lo >= hi THEN 0
    ELSE IF hi = lo + 1 THEN F32Err(Abs(sliceData[lo + 1]))
    ELSE SumErrRange(sliceData, lo, (lo + hi) \div 2)
         + SumErrRange(sliceData, (lo + hi) \div 2, hi)

SumErr(sliceData) == SumErrRange(sliceData, 0, Len(sliceData))

\* Math.abs(channelData[i]) of a Float32 sample given in thousandths
SampleAmplitude(x) == Approx(Abs(x), 1000, F32Err(Abs(x)))

\* sliceData.reduce(...) / sliceData.length: the sum of the Float32 samples is
\* exact in double arithmetic
MeanAmplitude(sliceData) ==
    Approx(SumAbs(sliceData), 1000 * Len(sliceData), SumErr(sliceData))

\* a slice that takes in the sample at which its run is closed
MakeSliceInclusive(channelData, sampleRate, sliceStart, i, n) ==
    LET sliceData == SubSeq(channelData, sliceStart + 1, i + 1)
        sliceDuration == Frac(i + 1 - sliceStart, sampleRate)
        avgAmplitude == MeanAmplitude(sliceData)
        pitch == detectPitch(sliceData, sampleRate)
        category == categorizeSlice(avgAmplitude, pitch, sliceDuration)
    IN  [id |-> n, sliceStart |-> sliceStart, numSamples |-> i + 1 - sliceStart,
         startTime |-> Frac(sliceStart, sampleRate), duration |-> sliceDuration,
         amplitude |-> avgAmplitude, pitch |-> pitch, category |-> category,
         color |-> getCategoryColor(category)]

\* the slice object built when a run is closed at code index i
MakeSlice(channelData, sampleRate, sliceStart, i, n) ==
    LET sliceData == SubSeq(channelData, sliceStart + 1, i)
        sliceDuration == Frac(i - sliceStart, sampleRate)
        avgAmplitude == MeanAmplitude(sliceData)
        pitch == detectPitch(sliceData, sampleRate)
        category == categorizeSlice(avgAmplitude, pitch, sliceDuration)
    IN  [id |-> n, sliceStart |-> sliceStart, numSamples |-> i - sliceStart,
         startTime |-> Frac(sliceStart, sampleRate), duration |-> sliceDuration,
         amplitude |-> avgAmplitude, pitch |-> pitch, category |-> category,
         color |-> getCategoryColor(category)]

\* KeepSlice without the minimum length test
KeepSliceAlways(i, sliceStart, sampleRate) == TRUE

\* whether a run of i - sliceStart samples is kept when it is closed
KeepSlice(i, sliceStart, sampleRate) ==
    Geq(Frac(i - sliceStart, sampleRate), minSliceLength)

\* timeInSeconds - (sliceStart / sampleRate) > maxSliceLength, with
\* timeInSeconds = i / sampleRate, as doubles: away from i - sliceStart =
\* 2 * sampleRate the exact quotient decides
ExceedsMaxSliceLength(i, sliceStart, sampleRate) ==
    IF (i - sliceStart) * maxSliceLength[2] = maxSliceLength[1] * sampleRate
    THEN DoubleDifferenceAboveTwo(i, sliceStart, sampleRate)
    ELSE Gt(Frac(i - sliceStart, sampleRate), maxSliceLength)

\* whether the run that started at sliceStart is closed at code index i
EndOfSlice(amplitude, i, sliceStart, sampleRate) ==
    \/ Lt(amplitude, threshold)
    \/ ExceedsMaxSliceLength(i, sliceStart, sampleRate)

\* one pass of the for loop, at code index i (channelData[i] is channelData[i + 1]
\* here); st holds the loop's variables sliceStart, inSlice and slices
SliceStep(channelData, sampleRate, st, i) ==
    LET amplitude == SampleAmplitude(channelData[i + 1])
    IN  IF ~st.inSlice /\ Gt(amplitude, threshold)
        THEN [st EXCEPT !.sliceStart = i, !.inSlice = TRUE]
        ELSE IF st.inSlice /\ EndOfSlice(amplitude, i, st.sliceStart, sampleRate)
        THEN [st EXCEPT !.inSlice = FALSE,
                        !.slices = IF KeepSlice(i, st.sliceStart, sampleRate)
                                   THEN Append(st.slices,
                                               MakeSlice(channelData, sampleRate,
                                                         st.sliceStart, i, Len(st.slices)))
                                   ELSE st.slices]
        ELSE st

\* the passes lo .. hi-1 of the for loop, in order (the range is halved to keep
\* the evaluation shallow)
RECURSIVE SliceLoop(_, _, _, _, _)
SliceLoop(channelData, sampleRate, st, lo, hi) ==
    IF lo >= hi THEN st
    ELSE IF hi = lo + 1 THEN SliceStep(channelData, sampleRate, st, lo)
    ELSE CHOOSE out \in {SliceLoop(channelData, sampleRate, left, (lo + hi) \div 2, hi) :
                          left \in {SliceLoop(channelData, sampleRate, st, lo,
                                              (lo + hi) \div 2)}} : TRUE

analyzeAndSliceAudio(channelData, sampleRate) ==
    SliceLoop(channelData, sampleRate,
              [sliceStart |-> 0, inSlice |-> FALSE, slices |-> <<>>],
              0, Len(channelData)).slices

----------------------------------------------------------------------------
(* Inputs of the pure functions *)

MaxSegs == 3

Levels == {0, 10, -100, 300}

RunLens == {1, 2, 40, 42}

SegRates == {20}

Repeat(x, n) == [k \in 1 .. n |-> x]

RECURSIVE Expand(_)
Expand(segs) ==
    IF segs = <<>> THEN <<>>
    ELSE Repeat(Head(segs)[1], Head(segs)[2]) \o Expand(Tail(segs))

SegSeqs == UNION {[1 .. k -> Levels \X RunLens] : k \in 1 .. MaxSegs}

SegFrames ==
    {[channelData |-> Expand(s), sampleRate |-> r, scenario |-> <<>>] :
        s \in SegSeqs, r \in SegRates}

\* The end-to-end frame: a 50 ms burst of amplitude 0.3 at 100 Hz, a gap of
\* silence, a 400 ms tone of amplitude 0.1 at 300 Hz, a tail of silence.  A
\* "square" wave never comes near zero; a "sine" wave passes through zero twice a
\* period, as a sampled sinusoid does.
ScenarioRates == {1200}

Shapes == {"square", "sine"}

GapLens == {1, 30}

TailLens == {0, 1, 30}

\* sample k (0-based) of a wave with the given period in samples
WaveSample(shape, amp, period, k) ==
    IF shape = "square"
    THEN IF 2 * (k % period) < period THEN amp ELSE -amp
    ELSE CASE (4 * (k % period)) \div period = 0 -> 0
           [] (4 * (k % period)) \div period = 1 -> amp
           [] (4 * (k % period)) \div period = 2 -> 0
           [] OTHER -> -amp

Wave(rate, shape, amp, hz, ms) ==
    [k \in 1 .. (rate * ms) \div 1000 |-> WaveSample(shape, amp, rate \div hz, k - 1)]

ScenarioFrame(rate, burst, gap, tone, tail) ==
    [channelData |-> Wave(rate, burst, 300, 100, 50) \o Repeat(0, gap)
                     \o Wave(rate, tone, 100, 300, 400) \o Repeat(0, tail),
     sampleRate |-> rate,
     scenario |-> <<burst, gap, tone, tail>>]

ScenarioFrames ==
    {ScenarioFrame(r, b, g, t, z) :
        r \in ScenarioRates, b \in Shapes, g \in GapLens, t \in Shapes, z \in TailLens}

NoFrame == [channelData |-> <<>>, sampleRate |-> 1, scenario |-> <<>>]

NoCatOut == [voice |-> "noise", live |-> "noise"]

NoPitch == [voice |-> Frac(0, 1), live |-> Frac(0, 1)]

\* inputs of the pitch estimator: sample rates, among them rates that are not a
\* multiple of 800
PitchRates == {800, 1700, 8000, 44100}

\* periods in samples of the test waves; 0 stands for the all-zero frame
PitchPeriods == {0, 2, 3, 10, 55, 100}

PitchLens == {8, 120, 250}

PitchAmps == {5, 300}

PitchFrame(rate, shape, amp, period, len) ==
    [channelData |-> [k \in 1 .. len |->
                         IF period = 0 THEN 0 ELSE WaveSample(shape, amp, period, k - 1)],
     sampleRate |-> rate,
     scenario |-> <<>>]

\* frames longer than the 1024 samples the live estimator reads: silence, then
\* a short wave
LongPitchFrame(rate, period) ==
    [channelData |-> Repeat(0, 1024)
                     \o [k \in 1 .. 40 |-> WaveSample("square", 300, period, k - 1)],
     sampleRate |-> rate,
     scenario |-> <<>>]

PitchFrames ==
    {PitchFrame(r, sh, a, p, n) :
        r \in PitchRates, sh \in Shapes, a \in PitchAmps, p \in PitchPeriods,
        n \in PitchLens}
    \cup {LongPitchFrame(1700, p) : p \in {2, 10}}

NoCat == [amplitude |-> Frac(0, 1), pitch |-> Frac(0, 1), duration |-> Frac(0, 1)]

AmplitudeGrid == {0, 40, 50, 60, 100, 110, 200, 300}

PitchGrid == {0, 80, 81, 100, 101, 150, 199, 200, 300, 499, 500, 799, 800, 1000}

DurationGrid == {50, 100, 101, 150, 200, 201, 250, 299, 300, 400, 2000}

CatInputs ==
    {[amplitude |-> Frac(a, 1000), pitch |-> Frac(p, 1), duration |-> Frac(d, 1000)] :
        a \in AmplitudeGrid, p \in PitchGrid, d \in DurationGrid}

----------------------------------------------------------------------------
(* LiveAmbientSlicer: constants.  Times are in units of 100 ms. *)

CapacityCurrent == 20

CapacityOlder == 12

LifetimeCurrent == 450

LifetimeOlder == 300

RecordTime == 20

OverlapDelay == 1

RetryDelay == 10

AgePeriod == 10

Variants == {"current", "older"}

\* newSlices.slice(-20), newSlices.slice(-12)
Capacity == IF variant = "current" THEN CapacityCurrent ELSE CapacityOlder

\* the delay of the expiry timers: 45000 ms, 30000 ms
Lifetime == IF variant = "current" THEN LifetimeCurrent ELSE LifetimeOlder

----------------------------------------------------------------------------
(* LiveAmbientSlicer: the environment *)

MaxTime == 520

MaxChunks == 2

MaxUser == 3

ExtraInserts == 3

MaxUserTime == 45

MaxUserTimeLong == 21

\* a decoded chunk, by what processLiveAudioBuffer reads of it: the mean absolute
\* amplitude (thousandths), the pitch detectPitch finds (Hz), the duration (ms)
Chunk(a, p, d) ==
    [ok |-> TRUE, amplitude |-> Frac(a, 1000), pitch |-> Frac(p, 1),
     duration |-> Frac(d, 1000)]

\* recorder.stop() or decodeAudioData rejects
FailedChunk == [ok |-> FALSE, amplitude |-> Frac(0, 1), pitch |-> Frac(0, 1),
                duration |-> Frac(0, 1)]

QuietChunk == Chunk(2, 0, 2000)

ShortChunk == Chunk(200, 150, 50)

TonalChunk == Chunk(100, 300, 2000)

NoiseChunk == Chunk(100, 0, 2000)

PercussiveChunk == Chunk(200, 150, 200)

VoiceChunk == Chunk(100, 300, 150)

LiveInputs == {FailedChunk, QuietChunk, TonalChunk}

\* a chunk exactly at both gates: 0.1 s long, mean amplitude 0.005
BoundaryChunk == Chunk(5, 0, 100)

LongInputs == {TonalChunk, PercussiveChunk, ShortChunk, QuietChunk, BoundaryChunk}

\* the last time (in 100 ms) of a user action in a session with control changes
MaxUserTimeControls == 25

\* the chunks of a session with control changes
ControlInputs == {TonalChunk}

\* slider positions (min 0, max 1, step 0.05), in hundredths
FeedbackValues == {20, 90}

VolumeValues == {10, 60}

ReverbValues == {20, 80}

DelayValues == {70}

\* pointer positions on the pad relative to its box, in hundredths of its width
\* and height; a touch that has moved off the pad gives a value outside 0 .. 100
PadValues == {-20, 30, 130}

PresetNames == {"minimal", "balanced", "dense", "ethereal", "glitchy"}

\* values of Math.random(), in thousandths (the draw is the double of that
\* decimal), on both sides of the thresholds the loops compare them with; 0.6 is
\* below the double 0.4 + 0.5 * 0.4
RandomDraws == {0, 250, 600, 800}

\* the value of Math.random() in a long session, where up to twice Capacity
\* loops tick: it is below every threshold, so every callback plays; both sides
\* of the thresholds are met in the short sessions
LongDraws == {0}

----------------------------------------------------------------------------
(* LiveAmbientSlicer: helpers *)

\* what a loop callback drew and computed; r = -1 when the event is no callback
NoTick ==
    [r |-> -1, threshold |-> F64Zero, age |-> 0, ageVolume |-> Frac(0, 1),
     volume |-> Frac(0, 1)]

NoEvent == [act |-> "none", id |-> 0, flag |-> FALSE, tick |-> NoTick]

Event(a, i, f) == [act |-> a, id |-> i, flag |-> f, tick |-> NoTick]

MainKey(id) == <<id, "main">>

TextureKey(id) == <<id, "texture">>

\* a loop object whose entry in loopsRef was overwritten by a later set()
ReplacedKey(key) == <<key[1], key[2], "replaced">>

\* Array.prototype.slice(0, n): a plausible slip for slice(-n)
KeepFirst(s, n) == IF Len(s) <= n THEN s ELSE SubSeq(s, 1, n)

\* Array.prototype.slice(-n)
KeepLast(s, n) == IF Len(s) <= n THEN s ELSE SubSeq(s, Len(s) - n + 1, Len(s))

\* the updater passed to setAudioSlices in processLiveAudioBuffer
StoreInsert(prev, slice) == KeepLast(Append(prev, slice), Capacity)

\* an aging pass that ages only the newest slice
AgeNewest(prev) ==
    [i \in 1 .. Len(prev) |-> IF i = Len(prev) THEN [prev[i] EXCEPT !.age = @ + 1]
                              ELSE prev[i]]

\* an aging pass that classifies each slice again, with its age in seconds as
\* its duration
AgeAllReclassified(prev) ==
    [i \in 1 .. Len(prev) |->
        [prev[i] EXCEPT !.age = @ + 1,
                        !.category = categorizeSliceLive(prev[i].amplitude, prev[i].pitch,
                                                         Frac(prev[i].age + 1, 1))]]

\* the updater passed to setAudioSlices by the aging interval
AgeAll(prev) == [i \in 1 .. Len(prev) |-> [prev[i] EXCEPT !.age = @ + 1]]

\* loop.stop(); loop.dispose() on the loop objects under the given keys
Dispose(objs, keys) ==
    [k \in DOMAIN objs |-> IF k \in keys THEN [objs[k] EXCEPT !.disposals = @ + 1]
                           ELSE objs[k]]

\* a stop that forgets the loops
StoppedLoopsNone(objs, ref) == objs

\* loopsRef.current.forEach(loop => { loop.stop(); loop.dispose(); })
StoppedLoops(objs, ref) == Dispose(objs, ref)

\* a loop object that has been created and not disposed
ActiveLoops == {k \in DOMAIN loopObjs : loopObjs[k].disposals = 0}

\* useState(...) of the controls; chaos, reverb and delay start from the props
InitialControls ==
    [feedbackIntensity |-> 50, ambientVolume |-> 30, chaos |-> <<50, 50>>,
     reverb |-> 50, delay |-> 30]

\* The values of feedbackIntensity and ambientVolume a loop callback reads.
\* startLiveAnalysis and processLiveAudioBuffer are memoized with an empty
\* dependency list, so the startAmbientLoop and startTextureLoop they reach are
\* the ones of the first render, whose closures hold that render's state.
CapturedControls == InitialControls

\* new Tone.Loop(callback, interval); loop.start(...).  The callback closes over
\* the slice object it was given and over the captured controls.
NewLoop(slice) ==
    [born |-> now, disposals |-> 0,
     slice |-> [category |-> slice.category, age |-> slice.age],
     feedbackIntensity |-> CapturedControls.feedbackIntensity,
     ambientVolume |-> CapturedControls.ambientVolume]

\* baseProbability of the main loop's callback, in thousandths
baseProbability(category) ==
    IF category = "percussive" THEN 400
    ELSE IF category = "tonal" THEN 600
    ELSE IF category = "voice" THEN 300
    ELSE 500

\* the double a loop callback compares Math.random() with: fi is the
\* feedbackIntensity the callback holds, in hundredths; the literals and the
\* control value are doubles, and the product and the sum are rounded
ThresholdOf(v, kind, category, fi) ==
    IF kind = "texture"
    THEN F64Plus(F64Thousandths(150), F64Times(F64Thousandths(fi * 10), F64Thousandths(100)))
    ELSE IF v = "current"
    THEN F64Plus(F64Thousandths(baseProbability(category)),
                 F64Times(F64Thousandths(fi * 10), F64Thousandths(400)))
    ELSE F64Plus(F64Times(F64Thousandths(fi * 10), F64Thousandths(300)), F64Thousandths(100))

\* the thresholds for feedbackIntensity lo / 100 .. hi / 100 in a row
RECURSIVE ThresholdRow(_, _, _, _, _)
ThresholdRow(v, kind, category, lo, hi) ==
    IF lo = hi THEN <<ThresholdOf(v, kind, category, lo)>>
    ELSE ThresholdRow(v, kind, category, lo, (lo + hi) \div 2)
         \o ThresholdRow(v, kind, category, (lo + hi) \div 2 + 1, hi)

\* the thresholds of all loops and control values, computed once
MainThresholds ==
    [percussive |-> ThresholdRow("current", "main", "percussive", 0, 100),
     tonal |-> ThresholdRow("current", "main", "tonal", 0, 100),
     voice |-> ThresholdRow("current", "main", "voice", 0, 100),
     noise |-> ThresholdRow("current", "main", "noise", 0, 100)]

OlderThresholds == ThresholdRow("older", "main", "noise", 0, 100)

TextureThresholds == ThresholdRow("current", "texture", "noise", 0, 100)

PlayThreshold(v, kind, category, fi) ==
    IF kind = "texture" THEN TextureThresholds[fi + 1]
    ELSE IF v = "current" THEN MainThresholds[category][fi + 1]
    ELSE OlderThresholds[fi + 1]

\* a callback that skips the tick when the draw is below the threshold
ShouldPlayAbove(r, p) == ~F64Less(F64Thousandths(r), p)

\* const shouldPlay = Math.random() < (...), for the draw that is the double of
\* r thousandths
ShouldPlay(r, p) == F64Less(F64Thousandths(r), p)

\* Math.max(a, b) on fractions
MaxFrac(a, b) == IF Lt(a, b) THEN b ELSE a

\* ageVolume = Math.max(floor, 1 - slice.age / lifetimeSeconds)
AgeVolume(v, kind, age) ==
    IF kind = "texture" THEN MaxFrac(Frac(2, 10), Frac(45 - age, 45))
    ELSE IF v = "current" THEN MaxFrac(Frac(3, 10), Frac(45 - age, 45))
    ELSE MaxFrac(Frac(1, 10), Frac(30 - age, 30))

\* categoryVolume, in tenths
categoryVolume(v, category) ==
    IF v = "current"
    THEN IF category = "voice" THEN 4
         ELSE IF category = "tonal" THEN 5
         ELSE IF category = "percussive" THEN 3
         ELSE 4
    ELSE IF category = "voice" THEN 3 ELSE 2

\* player.volume.value (dB) as a fraction; av is the ageVolume, amb the ambient
\* volume in hundredths
PlayerVolume(v, kind, category, av, amb) ==
    IF kind = "texture"
    THEN Frac(-25 * av[2] * 100 + av[1] * amb * 8, av[2] * 100)
    ELSE IF v = "current"
    THEN Frac(-15 * av[2] * 1000 + av[1] * categoryVolume(v, category) * amb * 15,
              av[2] * 1000)
    ELSE Frac(-20 * av[2] * 1000 + av[1] * categoryVolume(v, category) * amb * 20,
              av[2] * 1000)

\* what the callback of a loop object does with the draw r (thousandths)
TickOf(v, kind, loop, r) ==
    [r |-> r,
     threshold |-> PlayThreshold(v, kind, loop.slice.category, loop.feedbackIntensity),
     age |-> loop.slice.age,
     ageVolume |-> AgeVolume(v, kind, loop.slice.age),
     volume |-> PlayerVolume(v, kind, loop.slice.category,
                             AgeVolume(v, kind, loop.slice.age), loop.ambientVolume)]

\* effectsRef.current before initializeAudio has assigned it
NoEffects ==
    [built |-> FALSE, cutoff |-> 0, distortion |-> 0, reverbWet |-> 0, delayWet |-> 0,
     gain |-> 0]

\* the effect chain as initializeAudio constructs it: Filter(800), Distortion(0.1),
\* Reverb and PingPongDelay with their default wet of 1, Gain(ambientVolume);
\* cutoff in Hz, distortion in thousandths, the others in hundredths
BuiltEffects(amb) ==
    [built |-> TRUE, cutoff |-> 800, distortion |-> 100, reverbWet |-> 100,
     delayWet |-> 100, gain |-> amb]

\* the body of the effects useEffect after its isInitialized test
UpdateEffects(c, e) ==
    IF ~e.built THEN e
    ELSE [built |-> TRUE, cutoff |-> 200 + c.chaos[1] * 18,
          distortion |-> c.chaos[2] * 3, reverbWet |-> c.reverb,
          delayWet |-> c.delay, gain |-> c.ambientVolume]

\* Math.max(0, Math.min(1, x)), in hundredths
Clamp(x) == IF x < 0 THEN 0 ELSE IF x > 100 THEN 100 ELSE x

\* ambientPresets[name] of variant v as a record of control values
Preset(v, name) ==
    LET level ==
            IF v = "current"
            THEN CASE name = "minimal" -> <<20, 40>>
                   [] name = "balanced" -> <<40, 60>>
                   [] name = "dense" -> <<60, 90>>
                   [] name = "ethereal" -> <<50, 50>>
                   [] OTHER -> <<70, 80>>
            ELSE CASE name = "minimal" -> <<10, 20>>
                   [] name = "balanced" -> <<30, 50>>
                   [] name = "dense" -> <<50, 80>>
                   [] name = "ethereal" -> <<40, 30>>
                   [] OTHER -> <<60, 70>>
        rest ==
            CASE name = "minimal" -> <<<<30, 10>>, 80, 20>>
              [] name = "balanced" -> <<<<50, 30>>, 50, 40>>
              [] name = "dense" -> <<<<70, 60>>, 40, 70>>
              [] name = "ethereal" -> <<<<20, 10>>, 90, 30>>
              [] OTHER -> <<<<80, 90>>, 20, 80>>
    IN  [feedbackIntensity |-> level[2], ambientVolume |-> level[1],
         chaos |-> rest[1], reverb |-> rest[2], delay |-> rest[3]]

\* the dependency list of the effects useEffect (isInitialized apart)
EffectDeps(c) == <<c.chaos[1], c.chaos[2], c.reverb, c.delay, c.ambientVolume>>

\* the slice processLiveAudioBuffer builds from a chunk
NewSlice(chunk) ==
    [id |-> nextId, startTime |-> now, duration |-> chunk.duration,
     amplitude |-> chunk.amplitude, pitch |-> chunk.pitch,
     category |-> categorizeSliceLive(chunk.amplitude, chunk.pitch, chunk.duration),
     color |-> getCategoryColor(
                   categorizeSliceLive(chunk.amplitude, chunk.pitch, chunk.duration)),
     age |-> 0, bornTick |-> ageTicks]

\* a gate on the duration alone
GatedByDuration(chunk) == Lt(chunk.duration, Frac(1, 10))

\* the two early returns of processLiveAudioBuffer
Gated(chunk) ==
    \/ Lt(chunk.duration, Frac(1, 10))
    \/ Lt(chunk.amplitude, Frac(5, 1000))

\* whether processLiveAudioBuffer adds the texture loop
HasTexture(slice) ==
    variant = "current" /\ slice.category \in {"tonal", "noise"}

SetMin(S) == CHOOSE x \in S : \A y \in S : x <= y

\* the times at which a pending callback is due
Dues ==
    {c.due : c \in {x \in chains : x.pc # "decoding"}}
    \cup {t.due : t \in timers}
    \cup (IF ageDue >= 0 THEN {ageDue} ELSE {})

----------------------------------------------------------------------------
(* VoiceSlicer: recording, keyboard map, selection, sequence *)

\* the keys array of assignKeyboardKeys
KeyboardKeys ==
    <<"q", "w", "e", "r", "t", "y", "u", "i", "o", "p", "a", "s", "d", "f", "g", "h",
      "j", "k", "l", "z", "x", "c", "v", "b", "n", "m">>

\* loopRef.current before the first sequence
NoLoop == [sliceIds |-> <<>>, currentIndex |-> 0, state |-> "none"]

\* what a tick of the sequence loop started; id = -1 when it started no player
NoPlayer == [id |-> -1, buffer |-> <<0, 0>>]

VoiceEvent(a, f, p) == [act |-> a, flag |-> f, played |-> p]

\* the state of a mounted VoiceSlicer whose initializeAudio has succeeded:
\* micRef, recorderRef and effectsRef are assigned.  pending holds the runs of
\* startRecording and stopRecording whose awaited promise has not settled, micro
\* the continuations that are queued behind settled promises, in their order;
\* draining says that a continuation of the queue has run, so that the task in
\* which the promises settled is over; recorded is the number of the sound the
\* last sliced recording holds (0: none yet)
VoiceIdle ==
    [isRecording |-> FALSE, micOpen |-> FALSE, recorded |-> 0, audioSlices |-> <<>>,
     playersRef |-> {}, keyboardMap |-> {}, selectedSlices |-> <<>>,
     isPlaying |-> FALSE, loopRef |-> NoLoop, transport |-> "stopped",
     pending |-> {}, micro |-> <<>>, draining |-> FALSE, userActs |-> 0,
     lastEvent |-> VoiceEvent("none", FALSE, NoPlayer)]

\* the number of clicks and key presses of a session
MaxVoiceActs == 4

\* the sounds a recording may hold, as decoded audio at 20 samples a second:
\* silence, one sound of 0.2 s, two sounds of 0.2 s and 0.1 s
VoiceFrames ==
    <<[channelData |-> Repeat(0, 6), sampleRate |-> 20],
      [channelData |-> Repeat(300, 4) \o Repeat(0, 2), sampleRate |-> 20],
      [channelData |-> Repeat(300, 4) \o <<0>> \o Repeat(-100, 2) \o <<0>>,
       sampleRate |-> 20]>>

\* audioBuffer.get() of a buffer that has not been loaded
NoAudio == [channelData |-> <<>>, sampleRate |-> 0]

\* audioBuffer.get() of the buffer made by new Tone.ToneAudioBuffer(url) for the
\* recording that holds sound rec.  The constructor starts to load the URL and
\* returns; the audio is there only after the load has finished, in a later
\* task than the one that made the buffer.
BufferGet(rec, loaded) == IF loaded THEN VoiceFrames[rec] ELSE NoAudio

\* the AudioSlice of VoiceSlicer: the id is slice_<n>, buffer names the samples
VoiceSlice(rec, slice) ==
    [id |-> slice.id, buffer |-> <<rec, slice.sliceStart, slice.numSamples>>,
     category |-> slice.category, duration |-> slice.duration]

\* analyzeAndSliceAudio(audioBuffer), from its first line: `if (!buffer) return []`
\* and the slicing of the channel data otherwise
SlicesOfBuffer(rec, buffer) ==
    IF buffer = NoAudio THEN <<>>
    ELSE The({[k \in 1 .. Len(found) |-> VoiceSlice(rec, found[k])] :
              found \in {analyzeAndSliceAudio(buffer.channelData, buffer.sampleRate)}})

\* new Tone.Player(slice.buffer), registered under slice.id
PlayerOf(slice) == [id |-> slice.id, buffer |-> slice.buffer]

\* assignKeyboardKeys: slices.slice(0, keys.length).forEach((slice, index) =>
\* newMap.set(keys[index], slice.id))
assignKeyboardKeys(newSlices) ==
    {<<KeyboardKeys[i], newSlices[i].id>> : i \in 1 .. Min(Len(newSlices), Len(KeyboardKeys))}

SeqRange(q) == {q[i] : i \in 1 .. Len(q)}

\* new Set(selectedSlices) with sliceId deleted if present, added last otherwise
ToggledSelection(selected, sliceId) ==
    IF sliceId \in SeqRange(selected)
    THEN SelectSeq(selected, LAMBDA x : x # sliceId)
    ELSE Append(selected, sliceId)

VoiceRun(kind, n) == [kind |-> kind, n |-> n]

\* a queued continuation: of startRecording after open() (kind "open"), of
\* stopRecording after stop() (kind "stop", rec the sound of the recording) or
\* of stopRecording after analyzeAndSliceAudio (kind "slices", found its result)
Continuation(kind, ok, rec, found) == [kind |-> kind, ok |-> ok, rec |-> rec, found |-> found]

\* a click or a key press is a task of its own: it runs when no continuation is
\* queued
VoiceTask == voice.micro = <<>>

\* the continuation that runs next
NextContinuation(kind) ==
    /\ voice.micro # <<>>
    /\ Head(voice.micro).kind = kind

\* a click on RECORD (the button calls startRecording while isRecording is
\* false): the run suspends at `await micRef.current.open()`
startRecording ==
    /\ pc = "voice"
    /\ VoiceTask
    /\ ~voice.isRecording
    /\ voice.userActs < MaxVoiceActs
    /\ voice' = [voice EXCEPT
            !.pending = @ \cup {VoiceRun("open", voice.userActs + 1)},
            !.userActs = @ + 1,
            !.lastEvent = VoiceEvent("startRecording", TRUE, NoPlayer)]
    /\ UNCHANGED <<catIn, catOut, frame, slices, pitchOut, pc>>
    /\ UNCHANGED liveVars

\* micRef.current.open() settles: the microphone is open when it resolves, and
\* the continuation of startRecording is queued.  Several promises may settle in
\* one task, before the first continuation runs.
VoiceOpenSettled(run, ok) ==
    /\ pc = "voice"
    /\ ~voice.draining
    /\ run \in voice.pending
    /\ run.kind = "open"
    /\ voice' = [voice EXCEPT
            !.pending = @ \ {run},
            !.micOpen = IF ok THEN TRUE ELSE @,
            !.micro = Append(@, Continuation("open", ok, 0, <<>>)),
            !.lastEvent = VoiceEvent("openSettled", ok, NoPlayer)]
    /\ UNCHANGED <<catIn, catOut, frame, slices, pitchOut, pc>>
    /\ UNCHANGED liveVars

\* startRecording after `await micRef.current.open()`: when it resolved the
\* microphone is connected, the recorder started and isRecording set; when it
\* rejected the catch block only logs
VoiceMicOpened ==
    /\ pc = "voice"
    /\ NextContinuation("open")
    /\ voice' = [voice EXCEPT
            !.micro = Tail(@),
            !.draining = Tail(voice.micro) # <<>>,
            !.isRecording = IF Head(voice.micro).ok THEN TRUE ELSE @,
            !.lastEvent = VoiceEvent("micOpened", Head(voice.micro).ok, NoPlayer)]
    /\ UNCHANGED <<catIn, catOut, frame, slices, pitchOut, pc>>
    /\ UNCHANGED liveVars

\* a click on STOP REC (the button calls stopRecording while isRecording is
\* true): the run suspends at `await recorderRef.current.stop()`
stopRecording ==
    /\ pc = "voice"
    /\ VoiceTask
    /\ voice.isRecording
    /\ voice.userActs < MaxVoiceActs
    /\ voice' = [voice EXCEPT
            !.pending = @ \cup {VoiceRun("stop", voice.userActs + 1)},
            !.userActs = @ + 1,
            !.lastEvent = VoiceEvent("stopClick", TRUE, NoPlayer)]
    /\ UNCHANGED <<catIn, catOut, frame, slices, pitchOut, pc>>
    /\ UNCHANGED liveVars

\* recorderRef.current.stop() settles, with a recording that holds sound rec when
\* it resolves: the continuation of stopRecording is queued
VoiceStopSettled(run, ok, rec) ==
    /\ pc = "voice"
    /\ ~voice.draining
    /\ run \in voice.pending
    /\ run.kind = "stop"
    /\ rec \in 1 .. Len(VoiceFrames)
    /\ ~ok => rec = 1
    /\ voice' = [voice EXCEPT
            !.pending = @ \ {run},
            !.micro = Append(@, Continuation("stop", ok, rec, <<>>)),
            !.lastEvent = VoiceEvent("stopSettled", ok, NoPlayer)]
    /\ UNCHANGED <<catIn, catOut, frame, slices, pitchOut, pc>>
    /\ UNCHANGED liveVars

\* stopRecording from `await recorderRef.current.stop()` to
\* `await analyzeAndSliceAudio(buffer)`.  When stop() rejected the catch block
\* only logs.  When it resolved: setIsRecording(false), the microphone is
\* closed, a ToneAudioBuffer is made from the recording's URL and handed to
\* analyzeAndSliceAudio at once, which reads it with get() before anything has
\* been loaded and returns; the rest of stopRecording is queued behind the
\* continuations that wait already.
RecordingStopped ==
    /\ pc = "voice"
    /\ NextContinuation("stop")
    /\ IF Head(voice.micro).ok
       THEN LET rec == Head(voice.micro).rec
                found == SlicesOfBuffer(rec, BufferGet(rec, FALSE))
            IN  voice' = [voice EXCEPT
                    !.micro = Append(Tail(@), Continuation("slices", TRUE, rec, found)),
                    !.draining = TRUE,
                    !.isRecording = FALSE,
                    !.micOpen = FALSE,
                    !.lastEvent = VoiceEvent("processing", TRUE, NoPlayer)]
       ELSE voice' = [voice EXCEPT
                    !.micro = Tail(@),
                    !.draining = Tail(voice.micro) # <<>>,
                    !.lastEvent = VoiceEvent("stopRecording", FALSE, NoPlayer)]
    /\ UNCHANGED <<catIn, catOut, frame, slices, pitchOut, pc>>
    /\ UNCHANGED liveVars

\* stopRecording after `await analyzeAndSliceAudio(buffer)`: the slices it
\* returned replace audioSlices, playersRef is cleared and filled with one
\* player per slice, and the keyboard map is assigned.  selectedSlices,
\* isPlaying and loopRef are not touched.
RecordingSliced ==
    /\ pc = "voice"
    /\ NextContinuation("slices")
    /\ LET newSlices == Head(voice.micro).found
       IN  voice' = [voice EXCEPT
               !.micro = Tail(@),
               !.draining = Tail(voice.micro) # <<>>,
               !.recorded = Head(voice.micro).rec,
               !.audioSlices = newSlices,
               !.playersRef = {PlayerOf(newSlices[k]) : k \in 1 .. Len(newSlices)},
               !.keyboardMap = assignKeyboardKeys(newSlices),
               !.lastEvent = VoiceEvent("stopRecording", TRUE, NoPlayer)]
    /\ UNCHANGED <<catIn, catOut, frame, slices, pitchOut, pc>>
    /\ UNCHANGED liveVars

\* the player playSlice or the loop callback finds under sliceId, if any
LookupPlayer(ref, sliceId) ==
    IF \E p \in ref : p.id = sliceId
    THEN CHOOSE p \in ref : p.id = sliceId
    ELSE NoPlayer

\* the id keyboardMap.get(key) returns; -1 when the key is not mapped
KeyTarget(map, key) ==
    IF \E x \in map : x[1] = key
    THEN (CHOOSE x \in map : x[1] = key)[2]
    ELSE -1

\* handleKeyDown: the slice mapped to the key is played, if there is one
handleKeyDown(key) ==
    /\ pc = "voice"
    /\ VoiceTask
    /\ voice.userActs < MaxVoiceActs
    /\ voice' = [voice EXCEPT
            !.userActs = @ + 1,
            !.lastEvent =
                VoiceEvent("keyDown", KeyTarget(voice.keyboardMap, key) # -1,
                           LookupPlayer(voice.playersRef,
                                        KeyTarget(voice.keyboardMap, key)))]
    /\ UNCHANGED <<catIn, catOut, frame, slices, pitchOut, pc>>
    /\ UNCHANGED liveVars

\* The handlers below start from a slice on display or from a selection: a
\* click on a slice, the shuffle button (disabled while audioSlices is empty),
\* the play button (disabled while selectedSlices is empty), the loop callback.

\* a click on a displayed slice: the circle calls onSlicePlay (playSlice) and
\* onSliceClick, the grid button playSlice and then the same toggle; playSlice
\* starts the player registered under the id
toggleSliceSelection(sliceId) ==
    /\ pc = "voice"
    /\ VoiceTask
    /\ sliceId \in {voice.audioSlices[k].id : k \in 1 .. Len(voice.audioSlices)}
    /\ voice.userActs < MaxVoiceActs
    /\ voice' = [voice EXCEPT
            !.userActs = @ + 1,
            !.selectedSlices = ToggledSelection(@, sliceId),
            !.lastEvent = VoiceEvent("select", TRUE,
                                     LookupPlayer(voice.playersRef, sliceId))]
    /\ UNCHANGED <<catIn, catOut, frame, slices, pitchOut, pc>>
    /\ UNCHANGED liveVars

\* the ids of the first n slices of store that satisfy the category test
FirstIds(store, cats, n) ==
    LET hits == SelectSeq(store, LAMBDA s : s.category \in cats)
    IN  [k \in 1 .. Min(n, Len(hits)) |-> hits[k].id]

\* the selection one of the four patterns of randomizeSequence makes: choice is
\* Math.floor(Math.random() * 4), numSlices the 4 .. 8 of the random mix, and
\* shuffled the order its sort leaves
PatternSelection(store, choice, numSlices, shuffled) ==
    IF choice = 0
    THEN FirstIds(store, {"percussive"}, 3) \o FirstIds(store, Categories \ {"percussive"}, 2)
    ELSE IF choice = 1
    THEN FirstIds(store, {"voice"}, 4) \o FirstIds(store, {"tonal"}, 2)
    ELSE IF choice = 2
    THEN [k \in 1 .. Min(numSlices, Len(shuffled)) |-> shuffled[k].id]
    ELSE LET short == SelectSeq(store, LAMBDA s : Lt(s.duration, Frac(1, 2)))
         IN  [k \in 1 .. Min(6, Len(short)) |-> short[k].id]

\* the orders of the slices of store
Orders(store) ==
    {[k \in 1 .. Len(store) |-> store[order[k]]] :
        order \in {f \in [1 .. Len(store) -> 1 .. Len(store)] :
                      \A i \in 1 .. Len(store) : \A j \in 1 .. Len(store) :
                          f[i] = f[j] => i = j}}

randomizeSequence(choice, numSlices, shuffled) ==
    /\ pc = "voice"
    /\ VoiceTask
    /\ Len(voice.audioSlices) # 0
    /\ voice.userActs < MaxVoiceActs
    /\ shuffled \in Orders(voice.audioSlices)
    /\ voice' = [voice EXCEPT
            !.userActs = @ + 1,
            !.selectedSlices =
                PatternSelection(voice.audioSlices, choice, numSlices, shuffled),
            !.lastEvent = VoiceEvent("randomize", TRUE, NoPlayer)]
    /\ UNCHANGED <<catIn, catOut, frame, slices, pitchOut, pc>>
    /\ UNCHANGED liveVars

\* toggleSequence, called by the play button, which is disabled while
\* selectedSlices is empty: a playing sequence is stopped, otherwise a loop over
\* Array.from(selectedSlices) is created and started with the transport
toggleSequence ==
    /\ pc = "voice"
    /\ VoiceTask
    /\ Len(voice.selectedSlices) # 0
    /\ voice.userActs < MaxVoiceActs
    /\ IF voice.isPlaying
       THEN voice' = [voice EXCEPT
                !.userActs = @ + 1,
                !.loopRef = IF @.state = "none" THEN @ ELSE [@ EXCEPT !.state = "stopped"],
                !.transport = "stopped",
                !.isPlaying = FALSE,
                !.lastEvent = VoiceEvent("toggleSequence", FALSE, NoPlayer)]
       ELSE voice' = [voice EXCEPT
                !.userActs = @ + 1,
                !.loopRef = [sliceIds |-> voice.selectedSlices, currentIndex |-> 0,
                             state |-> "started"],
                !.transport = "started",
                !.isPlaying = TRUE,
                !.lastEvent = VoiceEvent("toggleSequence", TRUE, NoPlayer)]
    /\ UNCHANGED <<catIn, catOut, frame, slices, pitchOut, pc>>
    /\ UNCHANGED liveVars

\* the callback of the sequence loop, run by the transport every eighth note
SequenceTick ==
    /\ pc = "voice"
    /\ VoiceTask
    /\ voice.transport = "started"
    /\ voice.loopRef.state = "started"
    /\ voice' = [voice EXCEPT
            !.loopRef.currentIndex = (@ + 1) % Len(voice.loopRef.sliceIds),
            !.lastEvent = VoiceEvent("sequenceTick", TRUE,
                              LookupPlayer(voice.playersRef,
                                  voice.loopRef.sliceIds[voice.loopRef.currentIndex + 1]))]
    /\ UNCHANGED <<catIn, catOut, frame, slices, pitchOut, pc>>
    /\ UNCHANGED liveVars

----------------------------------------------------------------------------
(* LiveAmbientSlicer: initial state *)

LiveIdle ==
    /\ variant = "current"
    /\ now = 0
    /\ isInitialized = FALSE
    /\ isLive = FALSE
    /\ isListening = FALSE
    /\ micCreated = FALSE
    /\ micOpen = FALSE
    /\ transport = "stopped"
    /\ audioSlices = <<>>
    /\ playersRef = {}
    /\ players = {}
    /\ loopsRef = {}
    /\ loopObjs = <<>>
    /\ chains = {}
    /\ timers = {}
    /\ ageDue = -1
    /\ pending = {}
    /\ strayOpen = FALSE
    /\ controls = InitialControls
    /\ effects = NoEffects
    /\ env = [maxChunks |-> 0, maxUser |-> 0, userUntil |-> 0, restart |-> FALSE,
             inputs |-> {}, draws |-> {}]
    /\ chunks = 0
    /\ userActs = 0
    /\ nextId = 1
    /\ inserted = <<>>
    /\ ageTicks = 0
    /\ lastEvent = NoEvent
    /\ startFailed = FALSE

PureIdle ==
    /\ pc = "live"
    /\ catIn = NoCat
    /\ catOut = NoCatOut
    /\ frame = NoFrame
    /\ slices = <<>>
    /\ pitchOut = NoPitch

\* a run of initializeAudio suspended at `await Tone.start()`; amb is the
\* ambientVolume of the render that created the callback
InitRun(n, amb) ==
    [kind |-> "init", n |-> n, stage |-> "toneStart", amb |-> amb, stale |-> FALSE,
     turn |-> 0]

\* a run of startLiveAnalysis suspended at `await micRef.current.open()`; stale
\* once micRef.current has been replaced by another UserMedia
OpenRun(n) ==
    [kind |-> "open", n |-> n, stage |-> "micOpen", amb |-> 0, stale |-> FALSE,
     turn |-> 0]

\* the older variant calls initializeAudio() from its mount effect; the current
\* variant calls it from the first click on the start button
MountRuns(v) ==
    IF v = "older" THEN {InitRun(0, InitialControls.ambientVolume)} ELSE {}

InitLiveState ==
    /\ PureIdle
    /\ voice = VoiceIdle
    /\ now = 0
    /\ isInitialized = FALSE
    /\ isLive = FALSE
    /\ isListening = FALSE
    /\ micCreated = FALSE
    /\ micOpen = FALSE
    /\ transport = "stopped"
    /\ audioSlices = <<>>
    /\ playersRef = {}
    /\ players = {}
    /\ loopsRef = {}
    /\ loopObjs = <<>>
    /\ chains = {}
    /\ timers = {}
    /\ ageDue = -1
    /\ pending = MountRuns(variant)
    /\ strayOpen = FALSE
    /\ controls = InitialControls
    /\ effects = NoEffects
    /\ chunks = 0
    /\ userActs = 0
    /\ nextId = 1
    /\ inserted = <<>>
    /\ ageTicks = 0
    /\ lastEvent = NoEvent
    /\ startFailed = FALSE

\* a short session: a few chunks of any kind, the user starting, stopping and
\* clearing at will in the first seconds
InitLive ==
    /\ variant \in Variants
    /\ InitLiveState
    /\ env = [maxChunks |-> MaxChunks, maxUser |-> MaxUser, userUntil |-> MaxUserTime,
              restart |-> TRUE, inputs |-> LiveInputs,
              draws |-> RandomDraws]

\* a long session: the microphone keeps delivering the same kind of chunk until
\* the store has overflowed and the first loops have expired; the user starts
\* once, as soon as the audio system is initialized, and may stop or clear in
\* the first seconds, when no promise is pending
InitLong ==
    /\ variant \in Variants
    /\ InitLiveState
    /\ \E c \in LongInputs :
          env = [maxChunks |-> Capacity + ExtraInserts, maxUser |-> MaxUser,
                 userUntil |-> MaxUserTimeLong, restart |-> FALSE, inputs |-> {c},
                 draws |-> LongDraws]

\* a short session with one kind of chunk, of any category: the user starts
\* once and may stop or clear in the first seconds
InitTicks ==
    /\ variant \in Variants
    /\ InitLiveState
    /\ \E c \in LongInputs :
          env = [maxChunks |-> MaxChunks, maxUser |-> MaxUser,
                 userUntil |-> MaxUserTimeLong, restart |-> FALSE, inputs |-> {c},
                 draws |-> RandomDraws]

----------------------------------------------------------------------------
(* LiveAmbientSlicer: operations *)

\* the runs of toggleLiveMode whose startLiveAnalysis() has returned: their
\* continuations after `await startLiveAnalysis()` are queued, in the order of
\* turn
Resuming == {r \in pending : r.kind = "open" /\ r.stage # "micOpen"}

\* the place of the next continuation in the queue
NextTurn ==
    IF Resuming = {} THEN 1
    ELSE 1 + (CHOOSE m \in {r.turn : r \in Resuming} : \A r \in Resuming : r.turn <= m)

\* a click, a timer callback or a loop callback is a task of its own: it runs
\* when no continuation is queued
TaskTurn == Resuming = {}

\* the runs of initializeAudio that have not settled
InitRuns == {r \in pending : r.kind = "init"}

\* micRef.current = new Tone.UserMedia(): the previous UserMedia is not closed,
\* and the runs of startLiveAnalysis that await its open() will continue with
\* the new one
Replaced(runs) ==
    {IF r.kind = "open" THEN [r EXCEPT !.stale = TRUE] ELSE r : r \in runs}

\* effectsRef.current = {...}; setIsInitialized(true): the effects useEffect runs
\* on the new nodes only when isInitialized changes
AssignedEffects(amb) ==
    IF isInitialized THEN BuiltEffects(amb)
    ELSE UpdateEffects(controls, BuiltEffects(amb))

\* toggleLiveMode of the current variant while isInitialized and isLive are
\* false: it calls initializeAudio(), which suspends at `await Tone.start()`.
\* The test of isInitialized that follows the call reads the value of the render
\* the click came from (false), so the click starts nothing more.  The button
\* stays enabled, so a second click starts a second run.
InitClick ==
    /\ pc = "live"
    /\ TaskTurn
    /\ variant = "current"
    /\ ~isInitialized
    /\ ~isLive
    /\ userActs < env.maxUser
    /\ env.restart \/ InitRuns = {}
    /\ now <= env.userUntil
    /\ pending' = pending \cup {InitRun(userActs + 1, controls.ambientVolume)}
    /\ userActs' = userActs + 1
    /\ lastEvent' = Event("initClick", userActs + 1, FALSE)
    /\ UNCHANGED <<variant, now, isInitialized, isLive, isListening, micCreated,
                   micOpen, transport, audioSlices, playersRef, players, loopsRef,
                   loopObjs, chains, timers, ageDue, env, chunks, nextId, inserted,
                   ageTicks>>
    /\ UNCHANGED pureVars
    /\ UNCHANGED voice
    /\ UNCHANGED startFailed
    /\ UNCHANGED strayOpen
    /\ UNCHANGED controlVars

\* initializeAudio from `await Tone.start()` on.  When the promise resolves the
\* run sets the tempo and assigns a new UserMedia to micRef.current; the older
\* variant then assigns effectsRef.current and calls setIsInitialized(true) in
\* the same step, the current variant builds its nodes and suspends again at
\* `await reverb.generate()`.  When the promise rejects the catch block runs:
\* setIsInitialized(false) in the current variant, a log line in the older.
ToneStartSettled(run, ok) ==
    /\ pc = "live"
    /\ run \in pending
    /\ run.kind = "init"
    /\ run.stage = "toneStart"
    /\ IF ok
       THEN /\ micCreated' = TRUE
            /\ micOpen' = FALSE
            /\ strayOpen' = (strayOpen \/ micOpen)
            /\ IF variant = "older"
               THEN /\ pending' = Replaced(pending \ {run})
                    /\ effects' = AssignedEffects(run.amb)
                    /\ isInitialized' = TRUE
                    /\ lastEvent' = Event("init", run.n, TRUE)
               ELSE /\ pending' = Replaced(pending \ {run})
                                      \cup {[run EXCEPT !.stage = "reverbGenerate"]}
                    /\ UNCHANGED <<effects, isInitialized>>
                    /\ lastEvent' = Event("initStarted", run.n, TRUE)
       ELSE /\ pending' = pending \ {run}
            /\ isInitialized' = IF variant = "current" THEN FALSE ELSE isInitialized
            /\ lastEvent' = Event("init", run.n, FALSE)
            /\ UNCHANGED <<micCreated, micOpen, strayOpen, effects>>
    /\ UNCHANGED <<variant, now, isLive, isListening, transport, audioSlices,
                   playersRef, players, loopsRef, loopObjs, chains, timers, ageDue,
                   env, chunks, userActs, nextId, inserted, ageTicks>>
    /\ UNCHANGED pureVars
    /\ UNCHANGED voice
    /\ UNCHANGED startFailed
    /\ UNCHANGED controls

\* initializeAudio of the current variant from `await reverb.generate()` on:
\* effectsRef.current is assigned the nodes the run built and
\* setIsInitialized(true) is called, or the catch block calls
\* setIsInitialized(false)
ReverbSettled(run, ok) ==
    /\ pc = "live"
    /\ run \in pending
    /\ run.kind = "init"
    /\ run.stage = "reverbGenerate"
    /\ pending' = pending \ {run}
    /\ effects' = IF ok THEN AssignedEffects(run.amb) ELSE effects
    /\ isInitialized' = ok
    /\ lastEvent' = Event("init", run.n, ok)
    /\ UNCHANGED <<variant, now, isLive, isListening, micCreated, micOpen, transport,
                   audioSlices, playersRef, players, loopsRef, loopObjs, chains,
                   timers, ageDue, env, chunks, userActs, nextId, inserted,
                   ageTicks>>
    /\ UNCHANGED pureVars
    /\ UNCHANGED voice
    /\ UNCHANGED startFailed
    /\ UNCHANGED strayOpen
    /\ UNCHANGED controls

\* stopLiveSystem
stopLiveSystem ==
    /\ isListening' = FALSE
    /\ micOpen' = IF micCreated THEN FALSE ELSE micOpen
    /\ loopObjs' = StoppedLoops(loopObjs, loopsRef)
    /\ loopsRef' = {}
    /\ transport' = "stopped"

\* toggleLiveMode while isLive: stopLiveSystem(); setIsLive(false), and the aging
\* effect's cleanup clears the interval
ToggleStop ==
    /\ pc = "live"
    /\ TaskTurn
    /\ isLive
    /\ userActs < env.maxUser
    /\ now <= env.userUntil
    /\ stopLiveSystem
    /\ isLive' = FALSE
    /\ ageDue' = -1
    /\ userActs' = userActs + 1
    /\ lastEvent' = Event("stop", 0, FALSE)
    /\ UNCHANGED <<variant, now, isInitialized, micCreated, audioSlices, playersRef,
                   players, chains, timers, env, chunks, nextId, inserted, ageTicks>>
    /\ UNCHANGED pureVars
    /\ UNCHANGED voice
    /\ UNCHANGED startFailed
    /\ UNCHANGED pending
    /\ UNCHANGED strayOpen
    /\ UNCHANGED controlVars

\* toggleLiveMode while not isLive (and initialized): it calls
\* startLiveAnalysis(), which suspends at `await micRef.current.open()`.  isLive
\* stays false until the promise settles, so the button still starts: a second
\* click starts a second run.
StartClick ==
    /\ pc = "live"
    /\ TaskTurn
    /\ isInitialized
    /\ ~isLive
    /\ userActs < env.maxUser
    /\ env.restart \/ lastEvent.act = "init"
    /\ now <= env.userUntil
    /\ pending' = pending \cup {OpenRun(userActs + 1)}
    /\ userActs' = userActs + 1
    /\ lastEvent' = Event("startClick", userActs + 1, FALSE)
    /\ UNCHANGED <<variant, now, isInitialized, isLive, isListening, micCreated,
                   micOpen, transport, audioSlices, playersRef, players, loopsRef,
                   loopObjs, chains, timers, ageDue, env, chunks, nextId, inserted,
                   ageTicks>>
    /\ UNCHANGED pureVars
    /\ UNCHANGED voice
    /\ UNCHANGED startFailed
    /\ UNCHANGED strayOpen
    /\ UNCHANGED controlVars

\* startLiveAnalysis from `await micRef.current.open()` on.  When open()
\* resolves the listening flag is set, the meter and the recorder are connected
\* to micRef.current and recordChunk() starts the first recording; when it
\* rejects (or there is no microphone) the failure is logged.  In both cases
\* startLiveAnalysis returns and the continuation of toggleLiveMode is queued.
MicOpenSettled(run, ok) ==
    /\ pc = "live"
    /\ run \in pending
    /\ run.kind = "open"
    /\ run.stage = "micOpen"
    /\ pending' = (pending \ {run}) \cup
                      {[run EXCEPT !.stage = IF micCreated /\ ok THEN "opened"
                                              ELSE "openFailed",
                                   !.turn = NextTurn]}
    /\ IF micCreated /\ ok
       THEN /\ micOpen' = IF run.stale THEN micOpen ELSE TRUE
            /\ strayOpen' = (strayOpen \/ run.stale)
            /\ isListening' = TRUE
            /\ chains' = chains \cup
                   {[n |-> run.n, pc |-> "recording", due |-> now + RecordTime]}
       ELSE UNCHANGED <<micOpen, strayOpen, isListening, chains>>
    /\ lastEvent' = Event("micOpen", run.n, micCreated /\ ok)
    /\ UNCHANGED <<variant, now, isInitialized, isLive, micCreated, transport,
                   audioSlices, playersRef, players, loopsRef, loopObjs, timers,
                   ageDue, env, chunks, userActs, nextId, inserted, ageTicks>>
    /\ UNCHANGED pureVars
    /\ UNCHANGED voice
    /\ startFailed' = ~(micCreated /\ ok)
    /\ UNCHANGED controlVars

\* toggleLiveMode after `await startLiveAnalysis()`: Tone.Transport.start() and
\* setIsLive(true), whether the microphone was opened or not; the aging effect
\* sets its interval when isLive changes.  The continuations run in the order
\* in which they were queued.
LiveStarted(run) ==
    /\ pc = "live"
    /\ run \in Resuming
    /\ \A other \in Resuming : run.turn <= other.turn
    /\ pending' = pending \ {run}
    /\ transport' = "started"
    /\ isLive' = TRUE
    /\ ageDue' = IF isLive THEN ageDue ELSE now + AgePeriod
    /\ lastEvent' = Event("start", run.n, run.stage = "opened")
    /\ UNCHANGED <<variant, now, isInitialized, isListening, micCreated, micOpen,
                   audioSlices, playersRef, players, loopsRef, loopObjs, chains,
                   timers, env, chunks, userActs, nextId, inserted, ageTicks>>
    /\ UNCHANGED pureVars
    /\ UNCHANGED voice
    /\ UNCHANGED startFailed
    /\ UNCHANGED strayOpen
    /\ UNCHANGED controlVars

\* a clear that stops the system and keeps the stored slices
ClearedStoreKept(prev) == prev

\* setAudioSlices([])
ClearedStore(prev) == <<>>

\* clearAllSlices: stopLiveSystem(); setAudioSlices([]); playersRef.current.clear()
ClearAllSlices ==
    /\ pc = "live"
    /\ TaskTurn
    /\ isInitialized
    /\ userActs < env.maxUser
    /\ env.restart \/ pending = {}
    /\ now <= env.userUntil
    /\ stopLiveSystem
    /\ audioSlices' = ClearedStore(audioSlices)
    /\ playersRef' = {}
    /\ inserted' = <<>>
    /\ userActs' = userActs + 1
    /\ lastEvent' = Event("clear", 0, FALSE)
    /\ UNCHANGED <<variant, now, isInitialized, isLive, micCreated, players, chains,
                   timers, ageDue, env, chunks, nextId, ageTicks>>
    /\ UNCHANGED pureVars
    /\ UNCHANGED voice
    /\ UNCHANGED startFailed
    /\ UNCHANGED pending
    /\ UNCHANGED strayOpen
    /\ UNCHANGED controlVars

\* the 2000 ms timer set by recordChunk fires: it returns when the listening flag
\* is off, and otherwise awaits recorder.stop() and the decoding
ChunkTimer(c) ==
    /\ pc = "live"
    /\ TaskTurn
    /\ c \in chains
    /\ c.pc = "recording"
    /\ c.due <= now
    /\ IF ~isListening
       THEN chains' = chains \ {c}
       ELSE /\ chunks < env.maxChunks
            /\ chains' = (chains \ {c}) \cup {[c EXCEPT !.pc = "decoding"]}
    /\ lastEvent' = Event("chunkTimer", c.n, isListening)
    /\ UNCHANGED <<variant, now, isInitialized, isLive, isListening, micCreated,
                   micOpen, transport, audioSlices, playersRef, players, loopsRef,
                   loopObjs, timers, ageDue, env, chunks, userActs, nextId, inserted,
                   ageTicks>>
    /\ UNCHANGED pureVars
    /\ UNCHANGED voice
    /\ UNCHANGED startFailed
    /\ UNCHANGED pending
    /\ UNCHANGED strayOpen
    /\ UNCHANGED controlVars

\* the keys, in loopObjs and loopsRef, of the loops of slice id
KeysOf(id) == {MainKey(id), TextureKey(id)}

\* a registration that also unregisters the loops of the slice the store evicts
RegisterLoopsEvicting(ref, keys) ==
    (IF Len(audioSlices) = Capacity THEN ref \ KeysOf(audioSlices[1].id) ELSE ref)
        \cup keys

\* loopsRef.current.set(slice.id, loop) and set(`${slice.id}_texture`, textureLoop)
RegisterLoops(ref, keys) == ref \cup keys

\* processLiveAudioBuffer on a chunk that passes the two gates: the slice is
\* stored, its player created and registered, startAmbientLoop creates the main
\* loop with its expiry timer, and startTextureLoop (current variant, tonal or
\* noise) the texture loop with its expiry timer
StoreChunk(chunk) ==
    LET slice == NewSlice(chunk)
        keys == {MainKey(slice.id)}
                \cup (IF HasTexture(slice) THEN {TextureKey(slice.id)} ELSE {})
    IN  /\ audioSlices' = StoreInsert(audioSlices, slice)
        /\ playersRef' = playersRef \cup {slice.id}
        /\ players' = players \cup {slice.id}
        /\ loopObjs' = [k \in DOMAIN loopObjs \cup keys |->
                            IF k \in keys THEN NewLoop(slice) ELSE loopObjs[k]]
        /\ loopsRef' = RegisterLoops(loopsRef, keys)
        /\ timers' = timers \cup {[key |-> k, due |-> now + Lifetime] : k \in keys}
        /\ nextId' = nextId + 1
        /\ inserted' = Append(inserted, slice.id)

\* a capture loop that retries a failed chunk as soon as a decoded one
NextChunkDelayShort(ok) == OverlapDelay

\* the delay of the setTimeout(recordChunk, ...) that follows a chunk: 100 ms
\* after processLiveAudioBuffer, 1000 ms in the catch block
NextChunkDelay(ok) == IF ok THEN OverlapDelay ELSE RetryDelay

\* the awaited recorder.stop(), arrayBuffer() and decodeAudioData settle: on
\* success processLiveAudioBuffer runs and recordChunk is set to run 100 ms later,
\* on failure recordChunk is set to run 1000 ms later.  The listening flag is not
\* read here.
DecodeDone(c, chunk) ==
    /\ pc = "live"
    /\ c \in chains
    /\ c.pc = "decoding"
    /\ chunk \in env.inputs
    /\ chunks' = chunks + 1
    /\ IF chunk.ok /\ ~Gated(chunk)
       THEN StoreChunk(chunk)
       ELSE UNCHANGED <<audioSlices, playersRef, players, loopObjs, loopsRef, timers,
                        nextId, inserted>>
    /\ chains' = (chains \ {c}) \cup
           {[c EXCEPT !.pc = "rearm", !.due = now + NextChunkDelay(chunk.ok)]}
    /\ lastEvent' = Event(IF chunk.ok THEN "decode" ELSE "decodeFailed", c.n,
                          chunk.ok /\ ~Gated(chunk))
    /\ UNCHANGED <<variant, now, isInitialized, isLive, isListening, micCreated,
                   micOpen, transport, ageDue, env, userActs, ageTicks>>
    /\ UNCHANGED pureVars
    /\ UNCHANGED voice
    /\ UNCHANGED startFailed
    /\ UNCHANGED pending
    /\ UNCHANGED strayOpen
    /\ UNCHANGED controlVars

\* processLiveAudioBuffer run twice within one millisecond, by two capture
\* chains whose decodings settle together: the id is `live_${Date.now()}`, so
\* the second slice carries the id of the first.  playersRef.set and
\* loopsRef.set replace the entries of the first slice under the same keys, and
\* the store holds both slices.  The loops the replaced entries referred to are
\* reachable from no map and keep running; they are kept under ReplacedKey.
\* Beyond this step the run is followed through the loop callbacks only.
DecodeSameMs(c, chunk) ==
    /\ pc = "live"
    /\ c \in chains
    /\ c.pc = "decoding"
    /\ chunk \in env.inputs
    /\ chunk.ok
    /\ ~Gated(chunk)
    /\ \E i \in 1 .. Len(audioSlices) :
          /\ audioSlices[i].startTime = now
          /\ LET slice == [NewSlice(chunk) EXCEPT !.id = audioSlices[i].id]
                 keys == {MainKey(slice.id)}
                         \cup (IF HasTexture(slice) THEN {TextureKey(slice.id)} ELSE {})
             IN  /\ audioSlices' = StoreInsert(audioSlices, slice)
                 /\ playersRef' = playersRef \cup {slice.id}
                 /\ players' = players \cup {slice.id}
                 /\ loopObjs' =
                        [k \in DOMAIN loopObjs \cup keys
                                \cup {ReplacedKey(old) : old \in keys \cap DOMAIN loopObjs} |->
                             IF k \in keys THEN NewLoop(slice)
                             ELSE IF Len(k) = 3 THEN loopObjs[<<k[1], k[2]>>]
                             ELSE loopObjs[k]]
                 /\ loopsRef' = RegisterLoops(loopsRef, keys)
                 /\ timers' = timers \cup {[key |-> k, due |-> now + Lifetime] : k \in keys}
                 /\ inserted' = Append(inserted, slice.id)
    /\ nextId' = nextId + 1
    /\ chunks' = chunks + 1
    /\ chains' = (chains \ {c}) \cup
           {[c EXCEPT !.pc = "rearm", !.due = now + NextChunkDelay(TRUE)]}
    /\ lastEvent' = Event("decode", c.n, TRUE)
    /\ pc' = "collided"
    /\ UNCHANGED <<catIn, catOut, frame, slices, pitchOut>>
    /\ UNCHANGED voice
    /\ UNCHANGED <<variant, now, isInitialized, isLive, isListening, micCreated,
                   micOpen, transport, ageDue, env, userActs, ageTicks>>
    /\ UNCHANGED startFailed
    /\ UNCHANGED pending
    /\ UNCHANGED strayOpen
    /\ UNCHANGED controlVars

\* recordChunk run by the 100 ms or 1000 ms timer
RearmTimer(c) ==
    /\ pc = "live"
    /\ TaskTurn
    /\ c \in chains
    /\ c.pc = "rearm"
    /\ c.due <= now
    /\ IF ~isListening
       THEN chains' = chains \ {c}
       ELSE chains' = (chains \ {c}) \cup
                {[c EXCEPT !.pc = "recording", !.due = now + RecordTime]}
    /\ lastEvent' = Event("rearm", c.n, isListening)
    /\ UNCHANGED <<variant, now, isInitialized, isLive, isListening, micCreated,
                   micOpen, transport, audioSlices, playersRef, players, loopsRef,
                   loopObjs, timers, ageDue, env, chunks, userActs, nextId, inserted,
                   ageTicks>>
    /\ UNCHANGED pureVars
    /\ UNCHANGED voice
    /\ UNCHANGED startFailed
    /\ UNCHANGED pending
    /\ UNCHANGED strayOpen
    /\ UNCHANGED controlVars

\* an expiry callback that only unregisters the loop
ExpiredLoopsKept(objs, key) == objs

\* loop.stop(); loop.dispose() in an expiry callback
ExpiredLoops(objs, key) == Dispose(objs, {key})

\* the expiry timer of a main loop fires: the loop is stopped and disposed, its
\* key and the player's are deleted, the player is disposed
ExpireMain(t) ==
    /\ pc = "live"
    /\ TaskTurn
    /\ t \in timers
    /\ t.key[2] = "main"
    /\ t.due <= now
    /\ loopObjs' = ExpiredLoops(loopObjs, t.key)
    /\ loopsRef' = loopsRef \ {t.key}
    /\ playersRef' = playersRef \ {t.key[1]}
    /\ players' = players \ {t.key[1]}
    /\ timers' = timers \ {t}
    /\ lastEvent' = Event("expire", t.key[1], loopObjs[t.key].disposals = 0)
    /\ UNCHANGED <<variant, now, isInitialized, isLive, isListening, micCreated,
                   micOpen, transport, audioSlices, chains, ageDue, env, chunks,
                   userActs, nextId, inserted, ageTicks>>
    /\ UNCHANGED pureVars
    /\ UNCHANGED voice
    /\ UNCHANGED startFailed
    /\ UNCHANGED pending
    /\ UNCHANGED strayOpen
    /\ UNCHANGED controlVars

\* the expiry timer of a texture loop fires (set right after the main loop's, with
\* the same delay, so it runs after it)
ExpireTexture(t) ==
    /\ pc = "live"
    /\ TaskTurn
    /\ t \in timers
    /\ t.key[2] = "texture"
    /\ t.due <= now
    /\ \A u \in timers : u.key # MainKey(t.key[1])
    /\ loopObjs' = ExpiredLoops(loopObjs, t.key)
    /\ loopsRef' = loopsRef \ {t.key}
    /\ timers' = timers \ {t}
    /\ lastEvent' = Event("expireTexture", t.key[1], loopObjs[t.key].disposals = 0)
    /\ UNCHANGED <<variant, now, isInitialized, isLive, isListening, micCreated,
                   micOpen, transport, audioSlices, playersRef, players, chains, ageDue,
                   env, chunks, userActs, nextId, inserted, ageTicks>>
    /\ UNCHANGED pureVars
    /\ UNCHANGED voice
    /\ UNCHANGED startFailed
    /\ UNCHANGED pending
    /\ UNCHANGED strayOpen
    /\ UNCHANGED controlVars

\* the aging interval fires (it exists only while isLive)
AgeTick ==
    /\ pc = "live"
    /\ TaskTurn
    /\ ageDue >= 0
    /\ ageDue <= now
    /\ audioSlices' = AgeAll(audioSlices)
    /\ ageDue' = now + AgePeriod
    /\ ageTicks' = ageTicks + 1
    /\ lastEvent' = Event("age", 0, isLive)
    /\ UNCHANGED <<variant, now, isInitialized, isLive, isListening, micCreated,
                   micOpen, transport, playersRef, players, loopsRef, loopObjs, chains,
                   timers, env, chunks, userActs, nextId, inserted>>
    /\ UNCHANGED pureVars
    /\ UNCHANGED voice
    /\ UNCHANGED startFailed
    /\ UNCHANGED pending
    /\ UNCHANGED strayOpen
    /\ UNCHANGED controlVars

\* a loop's callback runs (the transport is running, the loop is started and not
\* disposed); r is the value Math.random() returns, in thousandths.  The loops
\* of two slices that share an id keep running as well.
LoopTick(key, r) ==
    /\ pc \in {"live", "collided"}
    /\ TaskTurn
    /\ transport = "started"
    /\ key \in DOMAIN loopObjs
    /\ loopObjs[key].disposals = 0
    /\ lastEvent' =
           [act |-> IF key[2] = "main" THEN "loopTick" ELSE "textureTick",
            id |-> key[1],
            flag |-> ShouldPlay(r, TickOf(variant, key[2], loopObjs[key], r).threshold),
            tick |-> TickOf(variant, key[2], loopObjs[key], r)]
    /\ UNCHANGED <<variant, now, isInitialized, isLive, isListening, micCreated,
                   micOpen, transport, audioSlices, playersRef, players, loopsRef,
                   loopObjs, chains, timers, ageDue, env, chunks, userActs, nextId,
                   inserted, ageTicks>>
    /\ UNCHANGED pureVars
    /\ UNCHANGED voice
    /\ UNCHANGED startFailed
    /\ UNCHANGED pending
    /\ UNCHANGED strayOpen
    /\ UNCHANGED controlVars

\* A control event sets the state to c2 and the component renders again.  The
\* effects useEffect runs when one of its dependencies has changed.  In the older
\* variant the mount effect depends on initializeAudio, which is re-created when
\* ambientVolume changes: its cleanup runs stopLiveSystem() and disposes the
\* effect nodes, the effects useEffect writes the new values to the nodes
\* effectsRef.current still holds, and the mount effect calls initializeAudio()
\* again, which suspends at `await Tone.start()`.
ControlChange(c2) ==
    /\ pc = "live"
    /\ TaskTurn
    /\ isInitialized
    /\ userActs < env.maxUser
    /\ now <= env.userUntil
    /\ c2 # controls
    /\ controls' = c2
    /\ effects' = IF EffectDeps(c2) # EffectDeps(controls)
                  THEN UpdateEffects(c2, effects)
                  ELSE effects
    /\ IF variant = "older" /\ c2.ambientVolume # controls.ambientVolume
       THEN /\ stopLiveSystem
            /\ pending' = pending \cup {InitRun(userActs + 1, c2.ambientVolume)}
       ELSE UNCHANGED <<isListening, micOpen, loopObjs, loopsRef, transport, pending>>
    /\ userActs' = userActs + 1
    /\ lastEvent' = Event("control", 0,
                          variant = "older" /\ c2.ambientVolume # controls.ambientVolume)
    /\ UNCHANGED <<variant, now, isInitialized, isLive, micCreated, audioSlices,
                   playersRef, players, chains, timers, ageDue, env, chunks, nextId,
                   inserted, ageTicks>>
    /\ UNCHANGED pureVars
    /\ UNCHANGED voice
    /\ UNCHANGED startFailed
    /\ UNCHANGED strayOpen

\* onChange of the volume slider
SetAmbientVolume(v) == ControlChange([controls EXCEPT !.ambientVolume = v])

\* onChange of the feedback slider
SetFeedbackIntensity(v) == ControlChange([controls EXCEPT !.feedbackIntensity = v])

\* onChange of the reverb slider
SetReverb(v) == ControlChange([controls EXCEPT !.reverb = v])

\* onChange of the delay slider
SetDelay(v) == ControlChange([controls EXCEPT !.delay = v])

\* handleChaosTouch / handleChaosClick
handleChaosTouch(x, y) ==
    ControlChange([controls EXCEPT !.chaos = <<Clamp(x), Clamp(y)>>])

\* applyPreset
applyPreset(presetName) == ControlChange(Preset(variant, presetName))

\* time passes to the next pending callback; a callback that is due runs before
\* time passes, and an awaited promise (Tone.start(), reverb.generate(),
\* open(), a decoding) settles within the current 100 ms
Tick ==
    /\ pc = "live"
    /\ Dues # {}
    /\ \A c \in chains : c.pc # "decoding"
    /\ pending = {}
    /\ SetMin(Dues) > now
    /\ SetMin(Dues) <= MaxTime
    /\ now' = SetMin(Dues)
    /\ lastEvent' = Event("tick", 0, FALSE)
    /\ UNCHANGED <<variant, isInitialized, isLive, isListening, micCreated, micOpen,
                   transport, audioSlices, playersRef, players, loopsRef, loopObjs,
                   chains, timers, ageDue, env, chunks, userActs, nextId, inserted,
                   ageTicks>>
    /\ UNCHANGED pureVars
    /\ UNCHANGED voice
    /\ UNCHANGED startFailed
    /\ UNCHANGED pending
    /\ UNCHANGED strayOpen
    /\ UNCHANGED controlVars

ToneStarted == \E run \in pending : \E ok \in BOOLEAN : ToneStartSettled(run, ok)

ReverbGenerated == \E run \in pending : \E ok \in BOOLEAN : ReverbSettled(run, ok)

MicOpened == \E run \in pending : \E ok \in BOOLEAN : MicOpenSettled(run, ok)

LiveStarts == \E run \in pending : LiveStarted(run)

ChunkDue == \E c \in chains : ChunkTimer(c)

Decoded == \E c \in chains : \E chunk \in env.inputs : DecodeDone(c, chunk)

Rearm == \E c \in chains : RearmTimer(c)

MainExpiry == \E t \in timers : ExpireMain(t)

TextureExpiry == \E t \in timers : ExpireTexture(t)

LoopTicks == \E key \in DOMAIN loopObjs : \E r \in env.draws : LoopTick(key, r)

NextLive ==
    \/ InitClick
    \/ ToneStarted
    \/ ReverbGenerated
    \/ StartClick
    \/ MicOpened
    \/ LiveStarts
    \/ ToggleStop
    \/ ClearAllSlices
    \/ ChunkDue
    \/ Decoded
    \/ Rearm
    \/ MainExpiry
    \/ TextureExpiry
    \/ AgeTick
    \/ LoopTicks
    \/ Tick

SpecLive == InitLive /\ [][NextLive]_vars

SpecTicks == InitTicks /\ [][NextLive]_vars

SpecLong == InitLong /\ [][NextLive]_vars

InitVoice ==
    /\ LiveIdle
    /\ pc = "voice"
    /\ catIn = NoCat
    /\ catOut = NoCatOut
    /\ frame = NoFrame
    /\ slices = <<>>
    /\ pitchOut = NoPitch
    /\ voice = VoiceIdle

MicOpens == \E run \in voice.pending : \E ok \in BOOLEAN : VoiceOpenSettled(run, ok)

RecordingStops ==
    \E run \in voice.pending : \E ok \in BOOLEAN : \E rec \in 1 .. Len(VoiceFrames) :
        VoiceStopSettled(run, ok, rec)

KeyDowns == \E key \in {"q", "w"} : handleKeyDown(key)

\* the steps of a VoiceSlicer session.  toggleSliceSelection, randomizeSequence,
\* toggleSequence and SequenceTick are enabled in no state a session reaches
\* (VoiceNothingToPlay), so they are no disjuncts here.
NextVoice ==
    \/ startRecording
    \/ MicOpens
    \/ VoiceMicOpened
    \/ stopRecording
    \/ RecordingStops
    \/ RecordingStopped
    \/ RecordingSliced
    \/ KeyDowns

SpecVoice == InitVoice /\ [][NextVoice]_vars

DecodedSameMs == \E c \in chains : \E chunk \in env.inputs : DecodeSameMs(c, chunk)

\* a short session in which two decodings may settle in the same millisecond
NextSameMs == NextLive \/ DecodedSameMs

SpecSameMs == InitLive /\ [][NextSameMs]_vars

\* a short session in which the user also moves the controls
InitControls ==
    /\ variant \in Variants
    /\ InitLiveState
    /\ env = [maxChunks |-> MaxChunks, maxUser |-> MaxUser,
              userUntil |-> MaxUserTimeControls, restart |-> TRUE,
              inputs |-> ControlInputs, draws |-> RandomDraws]

VolumeChange == \E v \in VolumeValues : SetAmbientVolume(v)

FeedbackChange == \E v \in FeedbackValues : SetFeedbackIntensity(v)

ReverbChange == \E v \in ReverbValues : SetReverb(v)

DelayChange == \E v \in DelayValues : SetDelay(v)

PadChange == \E x \in PadValues : \E y \in PadValues : handleChaosTouch(x, y)

PresetChange == \E name \in PresetNames : applyPreset(name)

NextControls ==
    \/ NextLive
    \/ VolumeChange
    \/ FeedbackChange
    \/ ReverbChange
    \/ DelayChange
    \/ PadChange
    \/ PresetChange

SpecControls == InitControls /\ [][NextControls]_vars

----------------------------------------------------------------------------
(* LiveAmbientSlicer: properties *)

\* C2: the store never holds more than its capacity, and it holds the most
\* recently inserted slices in insertion order: exactly `capacity` of them once
\* more than `capacity` have been inserted.
C2_StoreBounded ==
    pc = "live" =>
        /\ Len(audioSlices) <= Capacity
        /\ Len(audioSlices) = Min(Len(inserted), Capacity)
        /\ \A i \in 1 .. Len(audioSlices) :
               audioSlices[i].id = inserted[Len(inserted) - Len(audioSlices) + i]

C2_Witness ==
    /\ pc = "live"
    /\ Len(inserted) >= Capacity + 2
    /\ Len(audioSlices) = Capacity
    /\ audioSlices[1].id = inserted[Len(inserted) - Capacity + 1]

\* C3: a main loop created at time T is stopped, disposed and out of loopsRef
\* once T + lifetime has passed, and its callback does not run after that,
\* whether its slice is still stored or not and whether live mode was stopped
\* or not.
C3_LoopsExpire ==
    pc = "live" =>
        /\ \A k \in DOMAIN loopObjs :
               (k[2] = "main" /\ now > loopObjs[k].born + Lifetime) =>
                   (loopObjs[k].disposals > 0 /\ k \notin loopsRef)
        /\ lastEvent.act = "loopTick" =>
               now <= loopObjs[MainKey(lastEvent.id)].born + Lifetime

C3_Witness ==
    /\ pc = "live"
    /\ isListening
    /\ lastEvent.act = "tick"
    /\ \E k \in DOMAIN loopObjs :
          /\ k[2] = "main"
          /\ now > loopObjs[k].born + Lifetime
          /\ loopObjs[k].disposals = 1

\* C4: right after stopLiveSystem (the stop button or Clear) no loop object is
\* left undisposed, loopsRef is empty, the listening flag is off and the
\* microphone is closed: neither the UserMedia in micRef nor one that was opened
\* for this component is open.
C4_StopClean ==
    lastEvent.act \in {"stop", "clear"} =>
        /\ ActiveLoops = {}
        /\ loopsRef = {}
        /\ ~isListening
        /\ ~micOpen
        /\ ~strayOpen

C4_Witness ==
    /\ lastEvent.act = "stop"
    /\ \E id \in 1 .. MaxChunks :
          /\ MainKey(id) \in DOMAIN loopObjs
          /\ TextureKey(id) \in DOMAIN loopObjs
          /\ loopObjs[MainKey(id)].disposals = 1
          /\ loopObjs[TextureKey(id)].disposals = 1
          /\ now < loopObjs[MainKey(id)].born + Lifetime

\* C5: a chunk whose decoding settles while the listening flag is off adds
\* nothing to the store, to playersRef or to loopsRef.
C5_NoLateSlice ==
    (lastEvent.act = "decode" /\ ~isListening) => ~lastEvent.flag

\* C6: at most one chunk-capture chain (a pending recordChunk timer or a chunk
\* being decoded) exists at any time.
C6_OneChain == Cardinality(chains) <= 1

\* C7: every loop object is stopped and disposed at most once: no expiry
\* callback runs for a loop that a stop has already disposed.
C7_DisposedOnce ==
    \A k \in DOMAIN loopObjs : loopObjs[k].disposals <= 1

\* C8: a stored slice's age is the number of aging ticks since its insertion
\* (0 at insertion), and the aging interval exists and fires only while isLive.
C8_AgeExact ==
    pc = "live" =>
        /\ \A i \in 1 .. Len(audioSlices) :
               audioSlices[i].age = ageTicks - audioSlices[i].bornTick
        /\ (ageDue >= 0) = isLive
        /\ lastEvent.act = "age" => lastEvent.flag
        /\ (lastEvent.act = "decode" /\ lastEvent.flag) =>
               audioSlices[Len(audioSlices)].age = 0

C8_Witness ==
    /\ pc = "live"
    /\ ~isLive
    /\ now > Lifetime
    /\ Len(audioSlices) = 2
    /\ audioSlices[1].age >= 2
    /\ audioSlices[2].age = 0
    /\ ageTicks > audioSlices[1].age

\* the main-loop callback of the last event, when that event is one
MainTick == lastEvent.act = "loopTick"

TickedLoop == loopObjs[MainKey(lastEvent.id)]

\* p as the claim gives it: baseProbability(category) + c * feedbackIntensity on
\* doubles, for base and c in thousandths and feedbackIntensity lo / 100 .. hi / 100
RECURSIVE ClaimedRow(_, _, _, _)
ClaimedRow(base, c, lo, hi) ==
    IF lo = hi
    THEN <<F64Plus(F64Thousandths(base), F64Times(F64Thousandths(c), F64Thousandths(lo * 10)))>>
    ELSE ClaimedRow(base, c, lo, (lo + hi) \div 2)
         \o ClaimedRow(base, c, (lo + hi) \div 2 + 1, hi)

ClaimedCurrent ==
    [percussive |-> ClaimedRow(400, 400, 0, 100), tonal |-> ClaimedRow(600, 400, 0, 100),
     voice |-> ClaimedRow(300, 400, 0, 100), noise |-> ClaimedRow(500, 400, 0, 100)]

ClaimedOlder == ClaimedRow(100, 300, 0, 100)

ClaimedThreshold(category, fi) ==
    IF variant = "older" THEN ClaimedOlder[fi + 1] ELSE ClaimedCurrent[category][fi + 1]

IdsOf(store) == {store[i].id : i \in 1 .. Len(store)}

\* C22: a decoded chunk with duration < 0.1 s or mean amplitude < 0.005 leaves
\* the store, playersRef and loopsRef unchanged; every other decoded chunk adds
\* exactly one slice of age 0 at the end of the store, one player and one main
\* loop; in both cases recordChunk is set to run 100 ms later.  (A long session
\* has one kind of chunk, so the chunk of a decode step is the session's input.)
C22_GatedChunks ==
    [][lastEvent'.act = "decode" =>
          \A chunk \in env.inputs :
              /\ [n |-> lastEvent'.id, pc |-> "rearm", due |-> now + OverlapDelay]
                     \in chains'
              /\ IF chunk.duration[1] * 10 < chunk.duration[2]
                    \/ chunk.amplitude[1] * 1000 < 5 * chunk.amplitude[2]
                 THEN /\ ~lastEvent'.flag
                      /\ UNCHANGED <<audioSlices, playersRef, loopsRef>>
                 ELSE /\ lastEvent'.flag
                      /\ audioSlices' # <<>>
                      /\ audioSlices'[Len(audioSlices')].age = 0
                      /\ audioSlices'[Len(audioSlices')].id \notin IdsOf(audioSlices)
                      /\ IdsOf(audioSlices') \ IdsOf(audioSlices)
                             = {audioSlices'[Len(audioSlices')].id}
                      /\ playersRef' \ playersRef = {audioSlices'[Len(audioSlices')].id}
                      /\ playersRef \subseteq playersRef'
                      /\ {k \in loopsRef' \ loopsRef : k[2] = "main"}
                             = {MainKey(audioSlices'[Len(audioSlices')].id)}
                      /\ loopsRef \subseteq loopsRef']_vars

\* the second quiet chunk of a session has just been dropped, the capture loop
\* is running and nothing was stored
C22_Witness ==
    /\ lastEvent.act = "decode"
    /\ ~lastEvent.flag
    /\ env.inputs = {QuietChunk}
    /\ chunks = 2
    /\ isListening
    /\ audioSlices = <<>>
    /\ playersRef = {}
    /\ loopsRef = {}
    /\ \E c \in chains : c.pc = "rearm" /\ c.due = now + OverlapDelay

\* C23: every slice processLiveAudioBuffer stores gets its main loop under the
\* key id, and (current variant) its texture loop under the key id_texture if
\* and only if its category is tonal or noise; a stored slice has at most these
\* two loops, and every key of loopsRef is the main or texture key of exactly
\* one slice that was created.
C23_LoopsOfSlices ==
    [][/\ (lastEvent'.act = "decode" /\ lastEvent'.flag) =>
              LET slice == audioSlices'[Len(audioSlices')]
              IN  /\ MainKey(slice.id) \in loopsRef'
                  /\ variant = "current" =>
                         (TextureKey(slice.id) \in loopsRef'
                              <=> slice.category \in {"tonal", "noise"})
       /\ \A k \in loopsRef' :
              Cardinality({i \in 1 .. Len(inserted') : k \in KeysOf(inserted'[i])}) = 1
       /\ \A i \in 1 .. Len(audioSlices') :
              /\ Cardinality({k \in loopsRef' : k[1] = audioSlices'[i].id}) <= 2
              /\ Cardinality({j \in 1 .. Len(audioSlices') :
                                 audioSlices'[j].id = audioSlices'[i].id}) = 1]_vars

\* C24: isLive holds only while the listening flag is on and a capture chain
\* is pending; it is false after a start whose microphone open failed and after
\* clearAllSlices.
C24_LiveMeansListening ==
    /\ isLive => (isListening /\ chains # {})
    /\ (lastEvent.act = "start" /\ ~lastEvent.flag) => ~isLive
    /\ lastEvent.act = "clear" => ~isLive

\* C25: a tick of a main or texture loop that plays calls player.start on a
\* player that has not been disposed.
C25_StartsLivePlayer ==
    (lastEvent.act \in {"loopTick", "textureTick"} /\ lastEvent.flag) =>
        lastEvent.id \in players

\* a slice with its age set aside
Ageless(slice) == [slice EXCEPT !.age = 0]

\* C21: an aging tick adds one to the age of each stored slice and changes
\* nothing else in the store (same length, same order, same other fields), and
\* in no step does a slice that stays in the store change its category, id,
\* color, duration, amplitude or pitch.
C21_OnlyAgeChanges ==
    [][/\ lastEvent'.act = "age" =>
              /\ Len(audioSlices') = Len(audioSlices)
              /\ \A i \in 1 .. Len(audioSlices) :
                     audioSlices'[i] = [audioSlices[i] EXCEPT !.age = @ + 1]
       /\ \/ UNCHANGED audioSlices
          \/ \A i \in 1 .. Len(audioSlices) :
                 \A j \in 1 .. Len(audioSlices') :
                     audioSlices'[j].id = audioSlices[i].id =>
                         Ageless(audioSlices'[j]) = Ageless(audioSlices[i])]_vars

\* an aging tick has just aged two percussive slices, the older for the third
\* time at least
C21_Witness ==
    /\ lastEvent.act = "age"
    /\ Len(audioSlices) >= 2
    /\ audioSlices[1].age >= 3
    /\ audioSlices[2].age >= 1
    /\ audioSlices[1].category = "percussive"
    /\ audioSlices[2].category = "percussive"

\* equality of two fractions
EqFrac(a, b) == a[1] * b[2] = b[1] * a[2]

\* ageVolume of the main loop as the claim gives it for a slice of age n
ClaimedAgeVolume(n) ==
    IF variant = "current" THEN MaxFrac(Frac(3, 10), Frac(45 - n, 45))
    ELSE MaxFrac(Frac(1, 10), Frac(30 - n, 30))

\* C12: when a main loop triggers playback for a slice whose age in the store is
\* N, the age the callback reads is N and the volume is computed with
\* ageVolume = max(floor, 1 - N / lifetimeSeconds).
C12_AgeAtTrigger ==
    (MainTick /\ lastEvent.flag) =>
        \A i \in 1 .. Len(audioSlices) :
            audioSlices[i].id = lastEvent.id =>
                /\ lastEvent.tick.age = audioSlices[i].age
                /\ EqFrac(lastEvent.tick.ageVolume,
                          ClaimedAgeVolume(audioSlices[i].age))

\* C14: in the current variant, where toggleLiveMode initializes the audio
\* system on demand, the start action whose initialization succeeds ends in live
\* mode: listening flag on, first chunk recording armed, transport started,
\* isLive true.
C14_StartsLive ==
    (variant = "current" /\ lastEvent.act = "init" /\ lastEvent.flag) =>
        /\ isLive
        /\ isListening
        /\ transport = "started"
        /\ \E c \in chains : c.pc = "recording"

\* C15: a start whose microphone open fails leaves the listening flag false and
\* arms no recording timer, and from then on, while the listening flag is false,
\* no slice is produced.
C15_FailedStartQuiet ==
    /\ [][(lastEvent'.act \in {"micOpen", "start"} /\ ~lastEvent'.flag) =>
              /\ ~isListening => ~isListening'
              /\ chains' = chains]_vars
    /\ []((startFailed /\ ~isListening /\ lastEvent.act = "decode") => ~lastEvent.flag)

\* C16: a chunk whose recorder stop or decoding fails leaves the store, the
\* players, the loops and their expiry timers unchanged and sets recordChunk to
\* run 1000 ms later; when recordChunk runs at that time with the listening flag
\* on, it starts the next 2 s recording, so the capture loop goes on.
C16_RetryAfterFailure ==
    [][/\ lastEvent'.act = "decodeFailed" =>
            /\ UNCHANGED <<audioSlices, playersRef, players, loopsRef, loopObjs,
                           timers>>
            /\ [n |-> lastEvent'.id, pc |-> "rearm", due |-> now + RetryDelay]
                   \in chains'
       /\ \A c \in chains :
              (/\ c.pc = "rearm"
               /\ lastEvent'.act = "rearm"
               /\ lastEvent'.id = c.n
               /\ lastEvent'.flag) =>
                  /\ now' = c.due
                  /\ [n |-> c.n, pc |-> "recording", due |-> c.due + RecordTime]
                         \in chains']_vars

\* the first chunk failed at 2.0 s, nothing was stored, and at 3.0 s the next
\* recording has been started
C16_Witness ==
    /\ lastEvent.act = "rearm"
    /\ lastEvent.flag
    /\ chunks = 1
    /\ now = RecordTime + RetryDelay
    /\ audioSlices = <<>>
    /\ loopsRef = {}
    /\ isListening
    /\ \E c \in chains : c.pc = "recording" /\ c.due = now + RecordTime

\* C17: the step that evicts the oldest slice from a full store leaves that
\* slice's entries in loopsRef and playersRef, its loop objects and its expiry
\* timers as they were, and the step in which a loop's expiry timer fires leaves
\* the store as it was.
C17_DualLifetime ==
    [][/\ (/\ lastEvent'.act = "decode"
           /\ lastEvent'.flag
           /\ Len(audioSlices) = Capacity) =>
              LET evicted == audioSlices[1].id
              IN  /\ \A i \in 1 .. Len(audioSlices') : audioSlices'[i].id # evicted
                  /\ loopsRef' \cap KeysOf(evicted) = loopsRef \cap KeysOf(evicted)
                  /\ (evicted \in playersRef') = (evicted \in playersRef)
                  /\ \A k \in KeysOf(evicted) \cap DOMAIN loopObjs :
                         loopObjs'[k] = loopObjs[k]
                  /\ {t \in timers' : t.key[1] = evicted}
                         = {t \in timers : t.key[1] = evicted}
       /\ lastEvent'.act \in {"expire", "expireTexture"} =>
              audioSlices' = audioSlices]_vars

\* the expiry timer of a slice that was evicted from the full store has just
\* stopped its loop, which had been running until then
C17_Witness ==
    /\ lastEvent.act = "expire"
    /\ lastEvent.flag
    /\ isListening
    /\ Len(audioSlices) = Capacity
    /\ \A i \in 1 .. Len(audioSlices) : audioSlices[i].id # lastEvent.id
    /\ lastEvent.id \in {inserted[i] : i \in 1 .. Len(inserted)}

\* C20: a slice leaves the store only in a clear step or in the step that stores
\* a new slice into a full store, which removes the oldest one; after a clear the
\* store, loopsRef and playersRef are empty and the listening flag is off; aging
\* ticks, loop expiries and the stop button remove nothing.
C20_LeavesByEvictionOrClear ==
    [][/\ IdsOf(audioSlices) \ IdsOf(audioSlices') # {} =>
              \/ lastEvent'.act = "clear"
              \/ /\ lastEvent'.act = "decode"
                 /\ lastEvent'.flag
                 /\ Len(audioSlices) = Capacity
                 /\ IdsOf(audioSlices) \ IdsOf(audioSlices') = {audioSlices[1].id}
       /\ lastEvent'.act = "clear" =>
              /\ audioSlices' = <<>>
              /\ loopsRef' = {}
              /\ playersRef' = {}
              /\ ~isListening'
       /\ lastEvent'.act \in {"age", "expire", "expireTexture", "stop"} =>
              IdsOf(audioSlices') = IdsOf(audioSlices)]_vars

\* the first clear of a session in which one slice had been stored
C20_Witness ==
    /\ lastEvent.act = "clear"
    /\ userActs = 2
    /\ nextId = 2
    /\ players = {1}
    /\ audioSlices = <<>>
    /\ playersRef = {}

\* the kind of loop whose callback the last event is
TickKind == IF lastEvent.act = "loopTick" THEN "main" ELSE "texture"

\* C13: every tick of a running playback loop computes its play threshold from
\* the current feedback intensity and, when it plays, its volume from the current
\* ambient volume, whatever the controls were when the loop was created or the
\* component first rendered.
C13_LoopsReadControls ==
    lastEvent.act \in {"loopTick", "textureTick"} =>
        LET loop == loopObjs[<<lastEvent.id, TickKind>>]
        IN  /\ lastEvent.tick.threshold =
                   PlayThreshold(variant, TickKind, loop.slice.category,
                                 controls.feedbackIntensity)
            /\ lastEvent.flag =>
                   lastEvent.tick.volume =
                       PlayerVolume(variant, TickKind, loop.slice.category,
                                    lastEvent.tick.ageVolume, controls.ambientVolume)

\* the effect parameters the claim gives for the control values c
ClaimedEffects(c) ==
    [built |-> TRUE, cutoff |-> 200 + c.chaos[1] * 18, distortion |-> c.chaos[2] * 3,
     reverbWet |-> c.reverb, delayWet |-> c.delay, gain |-> c.ambientVolume]

\* C18: once initialized, the effect chain has cutoff = 200 + padX * 1800 Hz
\* (within 200 .. 2000), distortion = padY * 0.3, reverb wet = reverb, delay
\* wet = delay and gain = ambient volume after every control change; while
\* isInitialized stays false no effect parameter is written.
C18_EffectsFollowControls ==
    /\ [](isInitialized =>
             /\ effects = ClaimedEffects(controls)
             /\ effects.cutoff >= 200
             /\ effects.cutoff <= 2000)
    /\ [][(~isInitialized /\ ~isInitialized') => effects' = effects]_vars

----------------------------------------------------------------------------
(* Specifications of the pure functions *)

InitClassify ==
    /\ LiveIdle
    /\ voice = VoiceIdle
    /\ pc = "input"
    /\ catIn \in CatInputs
    /\ catOut = NoCatOut
    /\ frame = NoFrame
    /\ slices = <<>>
    /\ pitchOut = NoPitch

Classify ==
    /\ pc = "input"
    /\ catIn \in CatInputs
    /\ pc' = "classified"
    /\ catOut' = [voice |-> categorizeSlice(catIn.amplitude, catIn.pitch, catIn.duration),
                  live |-> categorizeSliceLive(catIn.amplitude, catIn.pitch, catIn.duration)]
    /\ UNCHANGED <<catIn, frame, slices, pitchOut>>
    /\ UNCHANGED liveVars
    /\ UNCHANGED voice

NextClassify == Classify

SpecClassify == InitClassify /\ [][NextClassify]_vars

InitSeg ==
    /\ LiveIdle
    /\ voice = VoiceIdle
    /\ pc = "input"
    /\ frame \in SegFrames \cup ScenarioFrames
    /\ slices = <<>>
    /\ pitchOut = NoPitch
    /\ catIn = NoCat
    /\ catOut = NoCatOut

Analyze ==
    /\ pc = "input"
    /\ frame # NoFrame
    /\ pc' = "sliced"
    /\ slices' = analyzeAndSliceAudio(frame.channelData, frame.sampleRate)
    /\ UNCHANGED <<catIn, catOut, frame, pitchOut>>
    /\ UNCHANGED liveVars
    /\ UNCHANGED voice

NextSeg == Analyze

SpecSeg == InitSeg /\ [][NextSeg]_vars

InitPitch ==
    /\ LiveIdle
    /\ voice = VoiceIdle
    /\ pc = "input"
    /\ frame \in PitchFrames
    /\ pitchOut = NoPitch
    /\ slices = <<>>
    /\ catIn = NoCat
    /\ catOut = NoCatOut

\* both estimators applied to the frame
DetectPitch ==
    /\ pc = "input"
    /\ frame # NoFrame
    /\ pc' = "pitched"
    /\ pitchOut' = [voice |-> detectPitch(frame.channelData, frame.sampleRate),
                    live |-> detectPitchLive(frame.channelData, frame.sampleRate)]
    /\ UNCHANGED <<catIn, catOut, frame, slices>>
    /\ UNCHANGED liveVars
    /\ UNCHANGED voice

NextPitch == DetectPitch

SpecPitch == InitPitch /\ [][NextPitch]_vars

----------------------------------------------------------------------------
(* Properties of the Segmenter and the Slice Classifier *)

InBounds(slice) ==
    /\ Geq(slice.duration, minSliceLength)
    /\ ~Gt(slice.duration, maxSliceLength)

\* C1: every slice analyzeAndSliceAudio emits has a duration of at least
\* minSliceLength and at most maxSliceLength.
C1_DurationBounded ==
    pc = "sliced" => \A k \in 1 .. Len(slices) : InBounds(slices[k])

\* the inputs of the classifier as integers: thousandths, Hz, milliseconds
InAmp == catIn.amplitude[1]

InPitch == catIn.pitch[1]

InMs == catIn.duration[1]

Rule1(percThousandths) == InMs < 300 /\ InAmp > percThousandths /\ InPitch < 200

Rule2 == 80 < InPitch /\ InPitch < 800 /\ InMs > 200

Rule3 == 100 < InPitch /\ InPitch < 500 /\ InMs > 100

FirstMatch(out, percThousandths) ==
    /\ (out = "percussive") <=> Rule1(percThousandths)
    /\ (out = "tonal") <=> (~Rule1(percThousandths) /\ Rule2)
    /\ (out = "voice") <=> (~Rule1(percThousandths) /\ ~Rule2 /\ Rule3)
    /\ (out = "noise") <=> (~Rule1(percThousandths) /\ ~Rule2 /\ ~Rule3)

\* C9: categorizeSlice is the priority-ordered policy, first match winning, with
\* the percussive amplitude threshold 0.1 in VoiceSlicer and 0.05 in
\* LiveAmbientSlicer; an input matching rules 1 and 2 is percussive, and so is
\* (amplitude 0.2, pitch 150, duration 0.1).
C9_FirstMatchWins ==
    pc = "classified" =>
        /\ FirstMatch(catOut.voice, 100)
        /\ FirstMatch(catOut.live, 50)
        /\ (Rule1(100) /\ Rule2) => catOut.voice = "percussive"
        /\ (Rule1(50) /\ Rule2) => catOut.live = "percussive"
        /\ (InAmp = 200 /\ InPitch = 150 /\ InMs = 100) =>
               (catOut.voice = "percussive" /\ catOut.live = "percussive")

C9_Witness ==
    /\ pc = "classified"
    /\ Rule1(100) /\ Rule2
    /\ catOut.voice = "percussive"
    /\ catOut.live = "percussive"

\* C28: LiveAmbientSlicer.categorizeSlice gives "tonal" or "noise", never
\* "percussive" or "voice", to every input of duration at least 0.3 s, and it
\* gives "voice" only to a duration above 0.1 s and at most 0.2 s.
C28_LongChunksTonalOrNoise ==
    pc = "classified" =>
        /\ InMs >= 300 => catOut.live \in {"tonal", "noise"}
        /\ catOut.live = "voice" => (100 < InMs /\ InMs <= 200)

C28_Witness ==
    /\ pc = "classified"
    /\ InMs >= 300
    /\ InAmp = 200
    /\ InPitch = 150
    /\ catOut.live = "tonal"

IsScenario == Len(frame.scenario) = 4

\* C10 as stated: the end-to-end frame yields exactly two slices, one percussive
\* and one tonal, each with a duration inside the bounds.
C10_TwoSlices ==
    (pc = "sliced" /\ IsScenario) =>
        /\ Len(slices) = 2
        /\ \E k \in 1 .. Len(slices) : slices[k].category = "percussive"
        /\ \E k \in 1 .. Len(slices) : slices[k].category = "tonal"
        /\ \A k \in 1 .. Len(slices) : InBounds(slices[k])

\* C10 amended: the 50 ms burst is shorter than minSliceLength and is dropped, so
\* the frame yields at most one slice and never a percussive one; it yields
\* exactly one slice, tonal, 400 ms long, starting where the tone starts, exactly
\* when the tone stays above the threshold throughout and a sample below the
\* threshold follows it.
C10_BurstDropped ==
    (pc = "sliced" /\ IsScenario) =>
        /\ Len(slices) <= 1
        /\ \A k \in 1 .. Len(slices) : slices[k].category # "percussive"
        /\ (Len(slices) = 1) <=> (frame.scenario[3] = "square" /\ frame.scenario[4] >= 1)
        /\ Len(slices) = 1 =>
               /\ slices[1].category = "tonal"
               /\ slices[1].numSamples * 1000 = 400 * frame.sampleRate
               /\ slices[1].sliceStart * 1000 = 50 * frame.sampleRate + 1000 * frame.scenario[2]
               /\ slices[1].pitch = Frac(frame.sampleRate, frame.sampleRate \div 300)
               /\ InBounds(slices[1])

C10_Witness ==
    /\ pc = "sliced"
    /\ IsScenario
    /\ frame.scenario[1] = "square"
    /\ frame.scenario[3] = "square"
    /\ Len(slices) = 1
    /\ slices[1].category = "tonal"

\* Math.abs(channelData[k]) for the code index k of the analysed frame
AmplitudeAt(k) == SampleAmplitude(frame.channelData[k + 1])

Above(k) == Gt(AmplitudeAt(k), threshold)

Below(k) == Lt(AmplitudeAt(k), threshold)

FrameLen == Len(frame.channelData)

\* the code indices of the samples copied into a slice
RangeOf(slice) == slice.sliceStart .. (slice.sliceStart + slice.numSamples - 1)

\* the code indices after the start of a slice's run at which the loop's
\* closing condition holds; the least one is where the run was closed
ClosingIndices(slice) ==
    {i \in (slice.sliceStart + 1) .. (FrameLen - 1) :
        EndOfSlice(AmplitudeAt(i), i, slice.sliceStart, frame.sampleRate)}

\* C26: the slices of one frame are sample ranges in strictly increasing start
\* order that do not overlap, each starting at a sample above the threshold; the
\* sample at which a slice was closed lies in no slice; the k-th slice emitted
\* has the id slice_(k-1).
C26_DisjointOrdered ==
    pc = "sliced" =>
        \A k \in 1 .. Len(slices) :
            /\ slices[k].id = k - 1
            /\ slices[k].numSamples >= 1
            /\ Above(slices[k].sliceStart)
            /\ ClosingIndices(slices[k]) # {}
            /\ \A j \in 1 .. Len(slices) :
                   SetMin(ClosingIndices(slices[k])) \notin RangeOf(slices[j])
            /\ k < Len(slices) =>
                   /\ slices[k].sliceStart < slices[k + 1].sliceStart
                   /\ RangeOf(slices[k]) \cap RangeOf(slices[k + 1]) = {}
                   /\ SetMin(ClosingIndices(slices[k])) < slices[k + 1].sliceStart

\* two slices, the first closed by the length limit at a sample above the
\* threshold, which neither slice holds
C26_Witness ==
    /\ pc = "sliced"
    /\ Len(slices) = 2
    /\ slices[1].sliceStart = 0
    /\ Above(slices[1].numSamples)
    /\ slices[2].sliceStart = slices[1].numSamples + 1

\* a run of samples above the threshold from a to b - 1 that starts the frame or
\* follows a sample below the threshold, is closed at b by a sample below the
\* threshold, and is shorter than minSliceLength
ShortRun(a, b) ==
    /\ Lt(Frac(b - a, frame.sampleRate), minSliceLength)
    /\ Below(b)
    /\ a = 0 \/ Below(a - 1)
    /\ \A k \in a .. (b - 1) : Above(k)

\* where the run of samples above the threshold that ends the frame starts
TailStart ==
    SetMin({a \in 0 .. (FrameLen - 1) : \A k \in a .. (FrameLen - 1) : Above(k)})

\* the frame ends inside a run that starts the frame or follows a sample below
\* the threshold and has not exceeded maxSliceLength
OpenTail ==
    /\ FrameLen > 0
    /\ Above(FrameLen - 1)
    /\ TailStart = 0 \/ Below(TailStart - 1)
    /\ ~ExceedsMaxSliceLength(FrameLen - 1, TailStart, frame.sampleRate)

\* C27: a run shorter than minSliceLength yields no slice, and a run still open
\* at the end of the frame yields no slice whatever its length; the analysis
\* returns its list in either case.
C27_SilentDiscard ==
    pc = "sliced" =>
        /\ \A a \in 0 .. (FrameLen - 1) :
               (Above(a) /\ (a = 0 \/ Below(a - 1))) =>
                   \A b \in (a + 1) .. (FrameLen - 1) :
                       ShortRun(a, b) =>
                           \A k \in 1 .. Len(slices) :
                               slices[k].sliceStart \notin a .. (b - 1)
        /\ OpenTail =>
               \A k \in 1 .. Len(slices) :
                   slices[k].sliceStart + slices[k].numSamples <= TailStart

\* a short run is dropped, and so is the 2-second run that ends the frame
C27_Witness ==
    /\ pc = "sliced"
    /\ FrameLen >= 3
    /\ ShortRun(0, 1)
    /\ OpenTail
    /\ Geq(Frac(FrameLen - TailStart, frame.sampleRate), maxSliceLength)
    /\ slices = <<>>

VoiceIds == {voice.audioSlices[k].id : k \in 1 .. Len(voice.audioSlices)}

\* the slice list of the recording that holds sound rec: what the slicing
\* makes of its audio
SliceListOf(rec) == SlicesOfBuffer(rec, VoiceFrames[rec])

\* C29: when stopRecording has completed, audioSlices is the slice list of the
\* recording just made, playersRef has one player per slice under the slice's
\* id, the keyboard map gives the first min(n, 26) slices the first keys in
\* order and gives no key twice, and every selected id is the id of a stored
\* slice.
C29_StateReplaced ==
    (voice.lastEvent.act = "stopRecording" /\ voice.lastEvent.flag) =>
        /\ voice.audioSlices = SliceListOf(voice.recorded)
        /\ {p.id : p \in voice.playersRef} = VoiceIds
        /\ \A p \in voice.playersRef : p.buffer[1] = voice.recorded
        /\ voice.keyboardMap =
               {<<KeyboardKeys[i], voice.audioSlices[i].id>> :
                   i \in 1 .. Min(Len(voice.audioSlices), 26)}
        /\ \A x \in voice.keyboardMap : \A y \in voice.keyboardMap :
               x[1] = y[1] => x = y
        /\ SeqRange(voice.selectedSlices) \subseteq VoiceIds

\* no slice is ever on display and nothing is ever selected or playing: the
\* guards of toggleSliceSelection, randomizeSequence, toggleSequence and
\* SequenceTick hold in no state
VoiceNothingToPlay ==
    /\ voice.audioSlices = <<>>
    /\ voice.playersRef = {}
    /\ voice.keyboardMap = {}
    /\ voice.selectedSlices = <<>>
    /\ ~voice.isPlaying
    /\ voice.loopRef = NoLoop
    /\ voice.transport = "stopped"

\* the frame holds only zeros
AllZero == \A k \in 1 .. Len(frame.channelData) : frame.channelData[k] = 0

\* f is 0 or lies in 80 .. 800 Hz
InPitchRange(f) == f[1] = 0 \/ (Geq(f, Frac(80, 1)) /\ Geq(Frac(800, 1), f))

\* C19: for every frame and sample rate the estimate of either detectPitch is 0
\* or a frequency in 80 .. 800 Hz, and it is 0 for an all-zero frame.
C19_PitchInRange ==
    pc = "pitched" =>
        /\ InPitchRange(pitchOut.voice)
        /\ InPitchRange(pitchOut.live)
        /\ AllZero => (pitchOut.voice[1] = 0 /\ pitchOut.live[1] = 0)

====
